---- MODULE Spec2Model ----
(***************************************************************************)
(* Model of the research-to-structured-data pipeline of the ABM one-pager  *)
(* generator: research_agent.get_company_data (search loop, context        *)
(* assembly, synthesis call, JSON validation and repair, fallback) and the *)
(* part of pdf_generator.create_styled_pdf that decides whether a record   *)
(* renders.                                                                *)
(*                                                                         *)
(* Python values are tagged records: t is the Python type, and the payload *)
(* field depends on the type (s, n, b, items, d).  A dict's payload d is a *)
(* function from its keys (strings) to values.                             *)
(***************************************************************************)
EXTENDS Integers, Sequences, FiniteSets, TLC

VARIABLES
    pc,                   \* position of the invocation of get_company_data
    company_name,         \* argument of get_company_data
    website_url,          \* argument of get_company_data
    qi,                   \* index into queries of the query searched next
    all_sources,          \* the local list all_sources
    context_with_sources, \* the local string context_with_sources (lines)
    json_output,          \* the text returned by chain.invoke (tokens)
    structured_data,      \* the record returned by get_company_data
    exc,                  \* exception that left get_company_data, or "none"
    result_counts,        \* number of results of each answer of tavily.search so far
    search_calls,         \* the requests sent to tavily.search
    synth_calls,          \* the calls of chain.invoke: request and outcome
    steps,                \* what the invocation did so far, in order
    FEATURES_AVAILABLE,   \* pdf_generator.FEATURES_AVAILABLE
    pdf,                  \* outcome of create_styled_pdf on structured_data
    inv,                  \* two concurrent invocations: the locals of each
    heap,                 \* two concurrent invocations: the objects they allocated
    overlap,              \* two concurrent invocations: both were in progress at once
    default_calls,        \* direct calls of get_default_section: section, object, edited
    environ,              \* os.environ after load_dotenv(): the two credentials
    module_state,         \* research_agent: "unloaded", "loaded" or "ValueError"
    clients,              \* the module-level clients constructed so far
    session_state,        \* app: st.session_state of one session
    clicks,               \* app: the Generate clicks of the session and how each ended
    render_input,         \* renderer: the record and feature matches it was given
    document,             \* renderer: what the document shows, or "raised"
    match_input,          \* feature matching: the record one call was given
    top_features          \* feature matching: how that call ended

\* the state of the single invocation
varsOne == <<pc, company_name, website_url, qi, all_sources, context_with_sources,
             json_output, structured_data, exc, result_counts, search_calls,
             synth_calls, steps, FEATURES_AVAILABLE, pdf>>

\* the state of the two concurrent invocations
varsTwo == <<inv, heap, overlap, default_calls>>

\* the state of the research_agent module
varsStartup == <<environ, module_state, clients>>

\* the state of one session of the application
varsSession == <<session_state, clicks>>

\* the state of one direct call of the renderer
varsRender == <<render_input, document>>

\* the state of one direct call of the feature matcher
varsMatch == <<match_input, top_features>>

vars == <<varsOne, varsTwo, varsStartup, varsSession, varsRender, varsMatch>>

----------------------------------------------------------------------------
(* Bounds of the model *)

\* most Source Records one invocation collects over all queries
MaxSources == 2
\* most results the search service returns for one query
MaxPerQuery == 2
\* longest why_now list the generator writes
MaxWhyNow == 4
\* longest personas list the generator writes
MaxPersonas == 3

Companies == {"Acme Corp", "Initech"}
Websites == {"acme.com"}

----------------------------------------------------------------------------
(* Python values *)

None == [t |-> "null"]
Str(s) == [t |-> "str", s |-> s]
Num(n) == [t |-> "num", n |-> n]
Bool(b) == [t |-> "bool", b |-> b]
List(items) == [t |-> "list", items |-> items]
\* a dict: its items, and its keys in the order they were inserted
Dict(keys, d) == [t |-> "dict", d |-> d, order |-> keys]
EmptyDict == Dict(<<>>, <<>>)

IsDict(v) == v.t = "dict"
IsList(v) == v.t = "list"
IsStr(v) == v.t = "str"

\* bool(v)
Truthy(v) ==
    CASE v.t = "null" -> FALSE
      [] v.t = "bool" -> v.b
      [] v.t = "num"  -> v.n # 0
      [] v.t = "str"  -> v.s # ""
      [] v.t = "list" -> v.items # <<>>
      [] v.t = "dict" -> DOMAIN v.d # {}

\* key in v, for a dict v
HasKey(v, key) == key \in DOMAIN v.d

\* v.get(key, default), for a dict v
Get(v, key, default) == IF HasKey(v, key) THEN v.d[key] ELSE default

\* v[key] = val, for a dict v
SetItem(v, key, val) ==
    Dict(IF HasKey(v, key) THEN v.order ELSE Append(v.order, key),
         [k \in (DOMAIN v.d) \cup {key} |-> IF k = key THEN val ELSE v.d[k]])

\* v[:n], for a list v
Take(seq, n) == SubSeq(seq, 1, IF Len(seq) < n THEN Len(seq) ELSE n)

\* v[:n] raises unless v is a list or a string
Sliceable(v) == v.t \in {"list", "str"}

\* "for x in v" raises unless v is a list, a string or a dict
Iterable(v) == v.t \in {"list", "str", "dict"}

\* the keys of a dict in the order "for k in v" visits them: the order they
\* were inserted in
KeysOf(v) == v.order

\* the values "for x in v" visits: the items of a list, the characters of a
\* string, the keys of a dict
Elements(v) ==
    IF IsList(v) THEN v.items
    ELSE IF IsStr(v) THEN [i \in 1..Len(v.s) |-> Str(SubSeq(v.s, i, i))]
    ELSE [i \in DOMAIN KeysOf(v) |-> Str(KeysOf(v)[i])]

\* n copies of x
Repeat(x, n) == [i \in 1..n |-> x]

----------------------------------------------------------------------------
(* Text: the generator's raw output is a sequence of tokens.  "fence" is    *)
(* the three backquotes, "nl" a newline, "sp" a blank, "word" any text that *)
(* is not JSON (a language tag, prose), and "json" the JSON text of one     *)
(* complete value v.                                                        *)

Fence == [k |-> "fence"]
NL == [k |-> "nl"]
SP == [k |-> "sp"]
Word == [k |-> "word"]
J(v) == [k |-> "json", v |-> v]

\* the JSON text of v written over several lines: its first part and its rest
JOpen(v) == [k |-> "jopen", v |-> v]
JClose(v) == [k |-> "jclose", v |-> v]

IsSpace(tok) == tok.k \in {"nl", "sp"}

RECURSIVE LStrip(_)
LStrip(text) ==
    IF text # <<>> /\ IsSpace(Head(text)) THEN LStrip(Tail(text)) ELSE text

RECURSIVE RStrip(_)
RStrip(text) ==
    IF text # <<>> /\ IsSpace(text[Len(text)])
    THEN RStrip(SubSeq(text, 1, Len(text) - 1))
    ELSE text

\* str.strip()
Strip(text) == RStrip(LStrip(text))

\* text.startswith('```')
StartsWithFence(text) == text # <<>> /\ Head(text) = Fence

\* text.split('\n'): the lines of text, at least one
RECURSIVE SplitLines(_)
SplitLines(text) ==
    IF \A i \in 1..Len(text) : text[i] # NL
    THEN <<text>>
    ELSE LET i == CHOOSE i \in 1..Len(text) :
                      text[i] = NL /\ \A j \in 1..(i - 1) : text[j] # NL
         IN <<SubSeq(text, 1, i - 1)>> \o SplitLines(SubSeq(text, i + 1, Len(text)))

\* '\n'.join(lines)
RECURSIVE JoinLines(_)
JoinLines(lines) ==
    IF lines = <<>> THEN <<>>
    ELSE IF Len(lines) = 1 THEN lines[1]
    ELSE lines[1] \o <<NL>> \o JoinLines(Tail(lines))

\* StripFence that never drops the last line
StripFence_KeepsLastLine(json_text) ==
    LET clean_json == Strip(json_text)
    IN IF StartsWithFence(clean_json)
       THEN LET lines == SplitLines(clean_json)
                n == Len(lines)
            IN JoinLines(SubSeq(lines, 2, n))
       ELSE clean_json

\* the code-fence strip of get_company_data
StripFence(json_text) ==
    LET clean_json == Strip(json_text)
    IN IF StartsWithFence(clean_json)
       THEN LET lines == SplitLines(clean_json)
                n == Len(lines)
            IN JoinLines(IF Strip(lines[n]) = <<Fence>>
                         THEN SubSeq(lines, 2, n - 1)
                         ELSE SubSeq(lines, 2, n))
       ELSE clean_json

\* json.loads(text) succeeds: one JSON value between optional whitespace
Parses(text) ==
    LET s == Strip(text)
        n == Len(s)
    IN \/ n = 1 /\ s[1].k = "json"
       \/ /\ n >= 2
          /\ s[1].k = "jopen"
          /\ s[n].k = "jclose"
          /\ s[n].v = s[1].v
          /\ \A i \in 2..(n - 1) : IsSpace(s[i])

\* json.loads(text), when it succeeds
JsonLoads(text) == Strip(text)[1].v

----------------------------------------------------------------------------
(* research_agent: defaults and fallback *)

required_keys == <<"snapshot", "why_now", "personas", "angles">>

DefaultSnapshot ==
    Dict(<<"industry", "size", "location", "fiscal_year", "glassdoor_score", "tech_stack", "change_events">>,
         [industry |-> Str("Unknown"), size |-> Str("Unknown"),
          location |-> Str("Unknown"), fiscal_year |-> Str("Unknown"),
          glassdoor_score |-> Str("Unknown"),
          tech_stack |-> List(<<>>), change_events |-> List(<<>>)])

\* get_default_section with no entry for openers in the table
get_default_section_NoOpeners(section_name) ==
    CASE section_name = "snapshot" -> DefaultSnapshot
      [] section_name \in {"why_now", "personas", "angles"} -> List(<<>>)
      [] OTHER -> EmptyDict

get_default_section(section_name) ==
    CASE section_name = "snapshot" -> DefaultSnapshot
      [] section_name \in {"openers", "why_now", "personas", "angles"} -> List(<<>>)
      [] OTHER -> EmptyDict

\* Metadata with the count one more than given
Metadata_CountOffByOne(company, website, count, sources) ==
    Dict(<<"company_name", "website", "sources_count", "all_sources">>,
         [company_name |-> Str(company), website |-> Str(website),
          sources_count |-> Num(count + 1), all_sources |-> List(sources)])

\* the _metadata envelope
Metadata(company, website, count, sources) ==
    Dict(<<"company_name", "website", "sources_count", "all_sources">>,
         [company_name |-> Str(company), website |-> Str(website),
          sources_count |-> Num(count), all_sources |-> List(sources)])

get_fallback_data(company, website) ==
    Dict(<<"snapshot", "openers", "why_now", "personas", "angles", "_metadata">>,
         "snapshot" :> Dict(<<"industry", "size", "location", "fiscal_year", "glassdoor_score", "tech_stack", "change_events">>,
                            [industry |-> Str("Research in progress"),
                             size |-> Str("Unknown"), location |-> Str("Unknown"),
                             fiscal_year |-> Str("Unknown"),
                             glassdoor_score |-> Str("Unknown"),
                             tech_stack |-> List(<<>>),
                             change_events |-> List(<<
                                 Dict(<<"event", "source", "source_url">>,
                                      [event |-> Str("Limited public information available"),
                                       source |-> None,
                                       source_url |-> Str(website)]) >>)])
      @@ "openers" :> List(<< Dict(<<"label", "script">>, [label |-> Str("General Outreach"),
                                    \* the em dash of the source text, written as
                                    \* its escape \u2014: a string of this module
                                    \* holds ASCII characters only
                                    script |-> Str("I noticed " \o company
                                        \o " is growing\\u2014how are you scaling your internal comms?")]) >>)
      @@ "why_now" :> List(<< Dict(<<"title", "description", "source", "source_url">>,
                                   [title |-> Str("Additional research needed"),
                                    description |-> Str("Manual research recommended for " \o company),
                                    source |-> None,
                                    source_url |-> Str(website)]) >>)
      @@ "personas" :> List(<< Dict(<<"name", "role", "email", "is_named_person", "goals", "fears", "source">>,
                                    [name |-> Str("Director of Internal Communications"),
                                     role |-> Str("Internal Comms Lead"),
                                     email |-> Str("Unknown"),
                                     is_named_person |-> Bool(FALSE),
                                     goals |-> List(<<Str("Improve engagement"), Str("Streamline tools")>>),
                                     fears |-> List(<<Str("Low adoption"), Str("Noise")>>),
                                     source |-> None]) >>)
      @@ "angles" :> List(<<>>)
      @@ "_metadata" :> Metadata(company, website, 0, <<>>))

----------------------------------------------------------------------------
(* research_agent: the search phase *)

\* queries.items(), in insertion order
QueryTypes == <<"general", "changes", "tech", "culture",
                "people_internal", "people_corporate", "people_linkedin">>

\* 'people' in query_type
IsPeopleQuery(query_type) ==
    query_type \in {"people_internal", "people_corporate", "people_linkedin"}

PeopleMaxResults == 7
GeneralMaxResults == 5

\* max_res
MaxRes(query_type) ==
    IF IsPeopleQuery(query_type) THEN PeopleMaxResults ELSE GeneralMaxResults

\* the request get_company_data sends for a query
SearchRequest(query_type) ==
    [query_type |-> query_type, search_depth |-> "advanced",
     max_results |-> MaxRes(query_type)]

\* The j-th hit of the service for a query.  Odd hits carry the three keys the
\* code reads; even hits carry only content.
SearchResult(query_type, j) ==
    IF j % 2 = 1
    THEN Dict(<<"title", "url", "content">>, [title |-> Str("Title " \o ToString(j)),
               url |-> Str("https://" \o query_type \o "/" \o ToString(j)),
               content |-> Str("Content " \o ToString(j))])
    ELSE Dict(<<"content">>, [content |-> Str(query_type \o " snippet " \o ToString(j))])

\* {'results': [...]} with the first k hits
SearchResponse(query_type, k) ==
    Dict(<<"results">>, [results |-> List([j \in 1..k |-> SearchResult(query_type, j)])])

\* the Source Record appended for result r of a query
SourceRecord(r, query_type) ==
    Dict(<<"title", "url", "content", "query_type">>, [title |-> Get(r, "title", Str("N/A")),
          url |-> Get(r, "url", Str("")),
          content |-> Get(r, "content", Str("")),
          query_type |-> Str(query_type)])

\* SourcesOf with the results of a response taken last first
SourcesOf_Reversed(results, query_type) ==
    IF Truthy(results) /\ HasKey(results, "results")
    THEN LET n == Len(results.d.results.items)
         IN [j \in 1..n |-> SourceRecord(results.d.results.items[n + 1 - j], query_type)]
    ELSE <<>>

\* the Source Records of one response, in the order returned
SourcesOf(results, query_type) ==
    IF Truthy(results) /\ HasKey(results, "results")
    THEN [j \in 1..Len(results.d.results.items) |->
             SourceRecord(results.d.results.items[j], query_type)]
    ELSE <<>>

\* ContextBlock with the marker counted from zero
ContextBlock_ZeroBased(idx, source) ==
    << [tag |-> "SOURCE", text |-> ToString(idx - 1)],
       [tag |-> "URL", text |-> source.d.url.s],
       [tag |-> "Title", text |-> source.d.title.s],
       [tag |-> "Type", text |-> source.d.query_type.s],
       [tag |-> "Content", text |-> source.d.content.s] >>

\* the lines of the tagged block of the source at position idx
ContextBlock(idx, source) ==
    << [tag |-> "SOURCE", text |-> ToString(idx)],
       [tag |-> "URL", text |-> source.d.url.s],
       [tag |-> "Title", text |-> source.d.title.s],
       [tag |-> "Type", text |-> source.d.query_type.s],
       [tag |-> "Content", text |-> source.d.content.s] >>

\* context_with_sources built from the source list
RECURSIVE BuildContextFrom(_, _)
BuildContextFrom(sources, idx) ==
    IF idx > Len(sources) THEN <<>>
    ELSE ContextBlock(idx, sources[idx]) \o BuildContextFrom(sources, idx + 1)

BuildContext(sources) == BuildContextFrom(sources, 1)

\* LimitedContext without the company name
LimitedContext_NoCompany(company) ==
    << [tag |-> "Limited", text |-> "Limited information available."] >>

\* context_with_sources of the except branch
LimitedContext(company) ==
    << [tag |-> "Limited",
        text |-> "Limited information available for " \o company \o "."] >>

----------------------------------------------------------------------------
(* research_agent: validation and repair *)

\* "key not in structured_data" raises TypeError on a value that is no container
MembershipRaises(v) == v.t \in {"null", "bool", "num"}

\* "structured_data[key] = ..." raises TypeError unless the value is a dict
ItemAssignRaises(v) == ~IsDict(v)

\* Repair with the loop ending one key early
RECURSIVE Repair_SkipsLast(_, _)
Repair_SkipsLast(sd, i) ==
    IF i >= Len(required_keys) THEN sd
    ELSE LET key == required_keys[i]
         IN Repair_SkipsLast(IF ~HasKey(sd, key)
                             THEN SetItem(sd, key, get_default_section(key))
                             ELSE sd,
                             i + 1)

\* Repair with the membership test dropped: every required key is reset
RECURSIVE Repair_Overwrites(_, _)
Repair_Overwrites(sd, i) ==
    IF i > Len(required_keys) THEN sd
    ELSE Repair_Overwrites(SetItem(sd, required_keys[i],
                                   get_default_section(required_keys[i])),
                           i + 1)

\* the loop over required_keys from position i on, for a dict
RECURSIVE Repair(_, _)
Repair(sd, i) ==
    IF i > Len(required_keys) THEN sd
    ELSE LET key == required_keys[i]
         IN Repair(IF ~HasKey(sd, key)
                   THEN SetItem(sd, key, get_default_section(key))
                   ELSE sd,
                   i + 1)

\* Validate with the collected sources attached to the fallback record
Validate_FallbackKeepsSources(text, company, website, sources) ==
    LET clean_json == StripFence(text)
    IN IF ~Parses(clean_json)
       THEN [kind |-> "return", exc |-> "none", fallback |-> TRUE,
             value |-> SetItem(get_fallback_data(company, website), "_metadata",
                               Metadata(company, website, Len(sources), sources))]
       ELSE LET sd == JsonLoads(clean_json)
            IN IF MembershipRaises(sd) \/ ItemAssignRaises(sd)
               THEN [kind |-> "raise", exc |-> "TypeError", fallback |-> FALSE,
                     value |-> None]
               ELSE [kind |-> "return", exc |-> "none", fallback |-> FALSE,
                     value |-> SetItem(Repair(sd, 1), "_metadata",
                                       Metadata(company, website, Len(sources), sources))]

\* Validate with a _metadata key of the generator's object left in place
Validate_KeepsGeneratorMetadata(text, company, website, sources) ==
    LET clean_json == StripFence(text)
    IN IF ~Parses(clean_json)
       THEN [kind |-> "return", exc |-> "none", fallback |-> TRUE,
             value |-> get_fallback_data(company, website)]
       ELSE LET sd == JsonLoads(clean_json)
            IN IF MembershipRaises(sd) \/ ItemAssignRaises(sd)
               THEN [kind |-> "raise", exc |-> "TypeError", fallback |-> FALSE,
                     value |-> None]
               ELSE [kind |-> "return", exc |-> "none", fallback |-> FALSE,
                     value |-> IF HasKey(sd, "_metadata")
                               THEN Repair(sd, 1)
                               ELSE SetItem(Repair(sd, 1), "_metadata",
                                            Metadata(company, website,
                                                     Len(sources), sources))]

\* Validate with the TypeError of a non-object value caught like a parse failure
Validate_FallbackOnTypeError(text, company, website, sources) ==
    LET clean_json == StripFence(text)
    IN IF ~Parses(clean_json)
       THEN [kind |-> "return", exc |-> "none", fallback |-> TRUE,
             value |-> get_fallback_data(company, website)]
       ELSE LET sd == JsonLoads(clean_json)
            IN IF MembershipRaises(sd) \/ ItemAssignRaises(sd)
               THEN [kind |-> "return", exc |-> "none", fallback |-> TRUE,
                     value |-> get_fallback_data(company, website)]
               ELSE [kind |-> "return", exc |-> "none", fallback |-> FALSE,
                     value |-> SetItem(Repair(sd, 1), "_metadata",
                                       Metadata(company, website, Len(sources), sources))]

\* the try block that parses and validates json_output: what get_company_data
\* returns, or the exception that leaves it
Validate(text, company, website, sources) ==
    LET clean_json == StripFence(text)
    IN IF ~Parses(clean_json)
       THEN [kind |-> "return", exc |-> "none", fallback |-> TRUE,
             value |-> get_fallback_data(company, website)]
       ELSE LET sd == JsonLoads(clean_json)
            IN IF MembershipRaises(sd) \/ ItemAssignRaises(sd)
               THEN [kind |-> "raise", exc |-> "TypeError", fallback |-> FALSE,
                     value |-> None]
               ELSE [kind |-> "return", exc |-> "none", fallback |-> FALSE,
                     value |-> SetItem(Repair(sd, 1), "_metadata",
                                       Metadata(company, website, Len(sources), sources))]

----------------------------------------------------------------------------
(* pdf_generator.create_styled_pdf: the operations that can raise *)

\* the items "for x in v[:n]" visits: the first n items of a list or the first
\* n characters of a string; nothing where the slice raises
SliceItems(v, n) == IF Sliceable(v) THEN Take(Elements(v), n) ELSE <<>>

\* the items "for t in v" visits that are neither a string nor a dict
OddItems(v) ==
    IF IsList(v)
    THEN {i \in 1..Len(v.items) : ~IsStr(v.items[i]) /\ ~IsDict(v.items[i])}
    ELSE {}

\* persona.get('goals', [])[:3] or persona.get('fears', [])[:3] raises
PersonaRaises(persona) ==
    /\ IsDict(persona)
    /\ \/ ~Sliceable(Get(persona, "goals", List(<<>>)))
       \/ ~Sliceable(Get(persona, "fears", List(<<>>)))

\* sources[:3] raises
AngleRaises(angle) ==
    /\ IsDict(angle)
    /\ Truthy(Get(angle, "sources", List(<<>>)))
    /\ ~Sliceable(Get(angle, "sources", List(<<>>)))

\* get_competitor_displacement_angle(tech_stack) raises
DisplacementRaises(tech_stack) ==
    /\ Truthy(tech_stack)
    /\ \/ ~Iterable(tech_stack)
       \/ OddItems(tech_stack) # {}

\* the sources block raises: a source with no .get, or a title with no len(),
\* or a list or dict of more than 50 entries, whose slice cannot take "..."
SourceRaises(source) ==
    \/ ~IsDict(source)
    \/ LET title == Get(source, "title", Str("Source"))
       IN \/ title.t \in {"null", "num", "bool"}
          \/ IsList(title) /\ Len(title.items) > 50
          \/ IsDict(title) /\ Cardinality(DOMAIN title.d) > 50

\* create_styled_pdf(sd, company) raises before it reaches pisa.CreatePDF
RenderRaises(sd, features_available) ==
    LET snapshot == Get(sd, "snapshot", EmptyDict)
        why_now == Get(sd, "why_now", List(<<>>))
        personas == Get(sd, "personas", List(<<>>))
        angles == Get(sd, "angles", List(<<>>))
    IN \/ ~IsDict(snapshot)
       \/ LET tech_stack == Get(snapshot, "tech_stack", List(<<>>))
              change_events == Get(snapshot, "change_events", List(<<>>))
          IN \/ Truthy(tech_stack) /\ ~Iterable(tech_stack)
             \/ Truthy(change_events) /\ ~Sliceable(change_events)
             \/ features_available /\ DisplacementRaises(tech_stack)
       \/ ~Sliceable(why_now)
       \/ ~Sliceable(personas)
       \/ \E i \in DOMAIN SliceItems(personas, 2) :
              PersonaRaises(SliceItems(personas, 2)[i])
       \/ ~Sliceable(angles)
       \/ \E i \in DOMAIN SliceItems(angles, 2) :
              AngleRaises(SliceItems(angles, 2)[i])
       \/ ~IsDict(Get(sd, "_metadata", EmptyDict))
       \/ LET all_sources_ == Get(Get(sd, "_metadata", EmptyDict), "all_sources",
                                  List(<<>>))
          IN /\ Truthy(all_sources_)
             /\ \/ ~Sliceable(all_sources_)
                \/ \E i \in DOMAIN SliceItems(all_sources_, 8) :
                       SourceRaises(SliceItems(all_sources_, 8)[i])

----------------------------------------------------------------------------
(* The texts the synthesis service may return *)

\* marks a key the generator left out of its JSON object
Absent == [t |-> "absent"]

WhyNowItem ==
    Dict(<<"title", "description", "source", "source_url">>,
         [title |-> Str("Expansion"), description |-> Str("Opening a new site"),
          source |-> Num(1), source_url |-> Str("https://news.example/1")])

\* a why_now item without the provenance annotations
WhyNowPlain ==
    Dict(<<"title", "description">>,
         [title |-> Str("New CEO"), description |-> Str("Leadership change")])

PersonaItem ==
    Dict(<<"name", "role", "email", "is_named_person", "goals", "fears", "source">>,
         [name |-> Str("Jane Doe"), role |-> Str("Director of Internal Comms"),
          email |-> Str("Unknown"), is_named_person |-> Bool(TRUE),
          goals |-> List(<<Str("goal 1"), Str("goal 2")>>),
          fears |-> List(<<Str("fear 1")>>), source |-> Num(2)])

\* a persona whose goals were written as null
PersonaNullGoals ==
    Dict(<<"name", "role", "goals", "fears">>,
         [name |-> Str("Head of Comms"), role |-> Str("Head of Comms"),
          goals |-> None, fears |-> List(<<>>)])

AngleItem ==
    Dict(<<"title", "description", "metric", "sources">>,
         [title |-> Str("Reach the frontline"), description |-> Str("Mobile SMS"),
          metric |-> Str("90% reach"), sources |-> List(<<Num(1), Num(2)>>)])

OpenerItem ==
    Dict(<<"label", "script">>,
         [label |-> Str("The Leadership Hook"), script |-> Str("Congrats on the new CEO")])

SnapshotItem ==
    Dict(<<"industry", "size", "location", "fiscal_year", "glassdoor_score", "tech_stack", "change_events">>,
         [industry |-> Str("Healthcare"), size |-> Str("5000+ employees"),
          location |-> Str("Omaha, NE"), fiscal_year |-> Str("Ends Jun 30"),
          glassdoor_score |-> Str("3.8/5"),
          tech_stack |-> List(<< Dict(<<"tool", "category", "source">>,
                                      [tool |-> Str("Workday"), category |-> Str("HRIS"),
                                       source |-> Num(1)]),
                                 Str("Slack") >>),
          change_events |-> List(<< Dict(<<"event", "source", "source_url">>,
                                         [event |-> Str("Acquired a clinic"),
                                          source |-> Num(2),
                                          source_url |-> Str("https://news.example/2")]),
                                    Dict(<<"event">>, [event |-> Str("Hired a new CFO")]) >>)])

\* a snapshot whose tech_stack holds an entry that is neither a string nor an object
SnapshotOddTech ==
    Dict(<<"industry", "tech_stack">>,
         [industry |-> Str("Retail"), tech_stack |-> List(<<Num(365)>>)])

SnapshotOpts == {Absent, None, SnapshotItem, SnapshotOddTech}
WhyNowOpts == {Absent, None, List(<<WhyNowPlain>> \o Repeat(WhyNowItem, MaxWhyNow - 1))}
PersonasOpts == {Absent, List(Repeat(PersonaItem, MaxPersonas)), List(<<PersonaNullGoals>>)}
AnglesOpts == {Absent, List(<<AngleItem>>)}
OpenersOpts == {Absent, List(<<OpenerItem>>)}
MetadataOpts == {Absent, Dict(<<"sources_count", "note">>,
                              [sources_count |-> Num(99), note |-> Str("generated")])}

\* the JSON object with the given sections, a key left out where its section is Absent
MkObject(sn, wn, pe, an, op, md) ==
    LET sections == ("snapshot" :> sn) @@ ("why_now" :> wn) @@ ("personas" :> pe)
                    @@ ("angles" :> an) @@ ("openers" :> op) @@ ("_metadata" :> md)
        present == {k \in DOMAIN sections : sections[k] # Absent}
        written == <<"snapshot", "why_now", "personas", "angles", "openers", "_metadata">>
    IN Dict(SelectSeq(written, LAMBDA k : k \in present),
            [k \in present |-> sections[k]])

Objects ==
    {MkObject(sn, wn, pe, an, op, md) :
        sn \in SnapshotOpts, wn \in WhyNowOpts, pe \in PersonasOpts,
        an \in AnglesOpts, op \in OpenersOpts, md \in MetadataOpts}

\* JSON values whose top level is not an object
NonObjects == {List(<<>>), List(<<Str("snapshot")>>), Str("n/a"), Num(42), Bool(TRUE), None}

\* the complete object of the instruction contract, used for the wrapped forms
FullObject ==
    MkObject(SnapshotItem, List(<<WhyNowItem, WhyNowPlain>>), List(<<PersonaItem>>),
             List(<<AngleItem>>), List(<<OpenerItem>>), Absent)

\* ways the generator wraps the JSON text of v
Wrapped(v) ==
    { <<Fence, Word, NL, J(v), NL, Fence>>,       \* ```json ... ```
      <<Fence, NL, J(v), NL, Fence, NL>>,         \* ``` ... ``` and a final newline
      <<Fence, Word, NL, J(v)>>,                  \* no closing fence
      <<NL, J(v), SP>>,                           \* surrounding whitespace
      <<Fence, J(v), Fence>>,                     \* fences on the line of the JSON
      <<Word, NL, J(v)>> }                        \* prose before the JSON

\* texts that hold no JSON at all
NonJson == { <<>>, <<Word>>, <<Fence, Word, NL, Word, NL, Fence>> }

\* the generator echoes the JSON text of a fallback record
FallbackEcho ==
    {<<J(get_fallback_data(company, website))>> :
        company \in Companies, website \in Websites}

\* the JSON text of an object, on one line or over several
Bodies(v) == { <<J(v)>>, <<JOpen(v), NL, JClose(v)>> }

\* a JSON text between an opening fence line and a closing fence line
Fenced(body) ==
    { <<Fence, Word, NL>> \o body \o <<NL, Fence>>,            \* ```json
      <<Fence, NL>> \o body \o <<NL, Fence>>,                  \* no language tag
      <<Fence, SP, Word, NL>> \o body \o <<NL, Fence, NL>>,     \* ``` json, final newline
      <<SP, Fence, Word, NL>> \o body \o <<NL, SP, Fence, SP>>, \* indented fences
      <<NL, Fence, Word, SP, NL, NL>> \o body \o <<SP, NL, NL, Fence, NL, NL>> }
                                                              \* blank lines

\* the objects the generator fences: complete, with sections missing, empty
FencedObjects ==
    { FullObject, EmptyDict,
      MkObject(SnapshotItem, Absent, Absent, Absent, Absent,
               Dict(<<"sources_count", "note">>,
                    [sources_count |-> Num(99), note |-> Str("generated")])) }

\* a fenced output next to the same JSON text without the fences
FencedPairs ==
    UNION { { [raw |-> raw, plain |-> body] : raw \in Fenced(body) } :
              body \in UNION {Bodies(v) : v \in FencedObjects} }

RawOutputs ==
    {<<J(v)>> : v \in Objects \cup NonObjects}
        \cup Wrapped(FullObject) \cup Wrapped(List(<<>>)) \cup NonJson
        \cup FallbackEcho
        \cup {pair.raw : pair \in FencedPairs}
        \cup {pair.plain : pair \in FencedPairs}

----------------------------------------------------------------------------
(* The state machine *)

\* the credentials the module reads
EnvKeys == {"TAVILY_API_KEY", "ANTHROPIC_API_KEY"}

\* os.environ.get(key): None when the variable is not set, else its text
EnvValues == {None, Str(""), Str("key")}

\* st.session_state before any report was stored
NoReport == [k \in {} |-> None]

\* the two invocations that run concurrently
Invocations == {1, 2}

\* the locals of an invocation that has not been called: all_sources is the
\* local list, answers the number of results of each answer it got, ret the
\* object of each key of the record it returned, edits the keys whose object
\* its caller changed afterwards
NotCalled ==
    [pc |-> "idle", company_name |-> "", website_url |-> "", qi |-> 1,
     all_sources |-> <<>>, answers |-> <<>>, json_output |-> <<>>,
     ret |-> [key \in {} |-> 0], edits |-> {}]

Init ==
    /\ pc = "idle"
    /\ company_name = ""
    /\ website_url = ""
    /\ qi = 1
    /\ all_sources = <<>>
    /\ context_with_sources = <<>>
    /\ json_output = <<>>
    /\ structured_data = None
    /\ exc = "none"
    /\ result_counts = <<>>
    /\ search_calls = <<>>
    /\ synth_calls = <<>>
    /\ steps = <<>>
    /\ FEATURES_AVAILABLE \in BOOLEAN
    /\ pdf = "none"
    /\ inv = [t \in Invocations |-> NotCalled]
    /\ heap = <<>>
    /\ overlap = FALSE
    /\ default_calls = <<>>
    /\ environ \in [EnvKeys -> EnvValues]
    /\ module_state = "unloaded"
    /\ clients = {}
    /\ session_state = NoReport
    /\ clicks = <<>>
    /\ render_input = None
    /\ document = None
    /\ match_input = None
    /\ top_features = None

\* LoadModule with the check of ANTHROPIC_API_KEY left out
LoadModule_ChecksTavilyOnly ==
    /\ module_state = "unloaded"
    /\ LET tavily_api_key == environ["TAVILY_API_KEY"]
       IN IF ~Truthy(tavily_api_key)
          THEN /\ module_state' = "ValueError"
               /\ clients' = {}
          ELSE /\ module_state' = "loaded"
               /\ clients' = {"tavily", "llm"}
    /\ UNCHANGED <<environ, varsOne, varsTwo, varsSession, varsRender, varsMatch>>

\* "import research_agent": the module body reads the two credentials, raises
\* ValueError if one is missing or empty, and only then constructs the clients
LoadModule ==
    /\ module_state = "unloaded"
    /\ LET tavily_api_key == environ["TAVILY_API_KEY"]
           anthropic_api_key == environ["ANTHROPIC_API_KEY"]
       IN IF ~Truthy(tavily_api_key) \/ ~Truthy(anthropic_api_key)
          THEN /\ module_state' = "ValueError"
               /\ clients' = {}
          ELSE /\ module_state' = "loaded"
               /\ clients' = {"tavily", "llm"}
    /\ UNCHANGED <<environ, varsOne, varsTwo, varsSession, varsRender, varsMatch>>

\* get_company_data(company, website) is called: the locals are fresh
Call(company, website) ==
    /\ module_state = "loaded"
    /\ pc \in {"idle", "done", "raised"}
    /\ pc' = "search"
    /\ company_name' = company
    /\ website_url' = website
    /\ qi' = 1
    /\ all_sources' = <<>>
    /\ context_with_sources' = <<>>
    /\ json_output' = <<>>
    /\ structured_data' = None
    /\ exc' = "none"
    /\ result_counts' = <<>>
    /\ search_calls' = <<>>
    /\ synth_calls' = <<>>
    /\ steps' = <<>>
    /\ pdf' = "none"
    /\ UNCHANGED FEATURES_AVAILABLE
    /\ UNCHANGED <<varsTwo, varsStartup, varsSession, varsRender, varsMatch>>

\* the end of the try block once the loop is over, or the next iteration
AfterQuery(sources) ==
    IF qi = Len(QueryTypes)
    THEN /\ context_with_sources' = BuildContext(sources)
         /\ steps' = steps \o <<"search", "context">>
         /\ pc' = "synth"
         /\ qi' = qi
    ELSE /\ qi' = qi + 1
         /\ steps' = Append(steps, "search")
         /\ UNCHANGED <<context_with_sources, pc>>

\* one iteration of the loop: tavily.search answers with k results
SearchAnswers(k) ==
    /\ pc = "search"
    /\ LET query_type == QueryTypes[qi]
           results == SearchResponse(query_type, k)
       IN /\ search_calls' = Append(search_calls, SearchRequest(query_type))
          /\ result_counts' = Append(result_counts, k)
          /\ all_sources' = all_sources \o SourcesOf(results, query_type)
          /\ AfterQuery(all_sources')
    /\ UNCHANGED <<company_name, website_url, json_output, structured_data, exc,
                   synth_calls, FEATURES_AVAILABLE, pdf>>
    /\ UNCHANGED <<varsTwo, varsStartup, varsSession, varsRender, varsMatch>>

\* SearchAnswers within the bound on the collected sources
SearchReturns(k) ==
    /\ Len(all_sources) + k <= MaxSources
    /\ SearchAnswers(k)

\* one iteration of the loop: the answer is empty or has no 'results' key
SearchReturnsNothing(results) ==
    /\ pc = "search"
    /\ LET query_type == QueryTypes[qi]
       IN /\ search_calls' = Append(search_calls, SearchRequest(query_type))
          /\ result_counts' = Append(result_counts, 0)
          /\ all_sources' = all_sources \o SourcesOf(results, query_type)
          /\ AfterQuery(all_sources')
    /\ UNCHANGED <<company_name, website_url, json_output, structured_data, exc,
                   synth_calls, FEATURES_AVAILABLE, pdf>>
    /\ UNCHANGED <<varsTwo, varsStartup, varsSession, varsRender, varsMatch>>

\* the entry of result_counts for a search that raised
Failed == -1

\* SearchRaises with a placeholder Source Record left in the list
SearchRaises_StubSource ==
    /\ pc = "search"
    /\ search_calls' = Append(search_calls, SearchRequest(QueryTypes[qi]))
    /\ result_counts' = Append(result_counts, Failed)
    /\ context_with_sources' = LimitedContext(company_name)
    /\ all_sources' = << SourceRecord(EmptyDict, QueryTypes[qi]) >>
    /\ steps' = steps \o <<"search", "context">>
    /\ pc' = "synth"
    /\ UNCHANGED <<company_name, website_url, qi, json_output, structured_data, exc,
                   synth_calls, FEATURES_AVAILABLE, pdf>>
    /\ UNCHANGED <<varsTwo, varsStartup, varsSession, varsRender, varsMatch>>

\* SearchRaises with the except branch leaving all_sources as it is
SearchRaises_KeepsPartial ==
    /\ pc = "search"
    /\ search_calls' = Append(search_calls, SearchRequest(QueryTypes[qi]))
    /\ result_counts' = Append(result_counts, Failed)
    /\ context_with_sources' = LimitedContext(company_name)
    /\ all_sources' = all_sources
    /\ steps' = steps \o <<"search", "context">>
    /\ pc' = "synth"
    /\ UNCHANGED <<company_name, website_url, qi, json_output, structured_data, exc,
                   synth_calls, FEATURES_AVAILABLE, pdf>>
    /\ UNCHANGED <<varsTwo, varsStartup, varsSession, varsRender, varsMatch>>

\* tavily.search raises: the except branch
SearchRaises ==
    /\ pc = "search"
    /\ search_calls' = Append(search_calls, SearchRequest(QueryTypes[qi]))
    /\ result_counts' = Append(result_counts, Failed)
    /\ context_with_sources' = LimitedContext(company_name)
    /\ all_sources' = <<>>
    /\ steps' = steps \o <<"search", "context">>
    /\ pc' = "synth"
    /\ UNCHANGED <<company_name, website_url, qi, json_output, structured_data, exc,
                   synth_calls, FEATURES_AVAILABLE, pdf>>
    /\ UNCHANGED <<varsTwo, varsStartup, varsSession, varsRender, varsMatch>>

\* one call of chain.invoke: the request it sends and how the call ended
SynthCall(outcome) ==
    [company_name |-> company_name, website |-> website_url,
     context |-> context_with_sources, outcome |-> outcome]

\* chain.invoke returns text
SynthReturns(text) ==
    /\ pc = "synth"
    /\ synth_calls' = Append(synth_calls, SynthCall("text"))
    /\ steps' = Append(steps, "synthesize")
    /\ json_output' = text
    /\ pc' = "validate"
    /\ UNCHANGED <<company_name, website_url, qi, all_sources, context_with_sources,
                   structured_data, exc, result_counts, search_calls,
                   FEATURES_AVAILABLE, pdf>>
    /\ UNCHANGED <<varsTwo, varsStartup, varsSession, varsRender, varsMatch>>

\* SynthRaises with the call inside the try block: the fallback record is returned
SynthRaises_Fallback ==
    /\ pc = "synth"
    /\ synth_calls' = Append(synth_calls, SynthCall("raise"))
    /\ steps' = Append(steps, "synthesize")
    /\ structured_data' = get_fallback_data(company_name, website_url)
    /\ pc' = "done"
    /\ UNCHANGED <<company_name, website_url, qi, all_sources, context_with_sources,
                   json_output, exc, result_counts, search_calls,
                   FEATURES_AVAILABLE, pdf>>
    /\ UNCHANGED <<varsTwo, varsStartup, varsSession, varsRender, varsMatch>>

\* chain.invoke raises: nothing in get_company_data catches it
SynthRaises ==
    /\ pc = "synth"
    /\ synth_calls' = Append(synth_calls, SynthCall("raise"))
    /\ steps' = Append(steps, "synthesize")
    /\ exc' = "SynthesisError"
    /\ pc' = "raised"
    /\ UNCHANGED <<company_name, website_url, qi, all_sources, context_with_sources,
                   json_output, structured_data, result_counts, search_calls,
                   FEATURES_AVAILABLE, pdf>>
    /\ UNCHANGED <<varsTwo, varsStartup, varsSession, varsRender, varsMatch>>

\* the parse-and-validate try block, up to the return or the exception
ValidateStep ==
    /\ pc = "validate"
    /\ LET out == Validate(json_output, company_name, website_url, all_sources)
       IN /\ pc' = IF out.kind = "return" THEN "done" ELSE "raised"
          /\ structured_data' = out.value
          /\ exc' = out.exc
          /\ steps' = steps \o <<"parse">>
                       \o (IF out.fallback THEN <<"fallback">> ELSE <<>>)
    /\ UNCHANGED <<company_name, website_url, qi, all_sources, context_with_sources,
                   json_output, result_counts, search_calls, synth_calls,
                   FEATURES_AVAILABLE, pdf>>
    /\ UNCHANGED <<varsTwo, varsStartup, varsSession, varsRender, varsMatch>>

\* create_styled_pdf(structured_data, company_name) on the returned record;
\* pisa_err is pisa_status.err
RenderPdf(pisa_err) ==
    /\ pc = "done"
    /\ pdf = "none"
    /\ pdf' = IF RenderRaises(structured_data, FEATURES_AVAILABLE) THEN "raised"
              ELSE IF pisa_err THEN "None" ELSE "bytes"
    /\ UNCHANGED <<pc, company_name, website_url, qi, all_sources,
                   context_with_sources, json_output, structured_data, exc,
                   result_counts, search_calls, synth_calls, steps,
                   FEATURES_AVAILABLE>>
    /\ UNCHANGED <<varsTwo, varsStartup, varsSession, varsRender, varsMatch>>

Next ==
    \/ LoadModule
    \/ \E company \in Companies, website \in Websites : Call(company, website)
    \/ \E k \in 0..MaxPerQuery : SearchReturns(k)
    \/ \E results \in {None, EmptyDict} : SearchReturnsNothing(results)
    \/ SearchRaises
    \/ \E text \in RawOutputs : SynthReturns(text)
    \/ SynthRaises
    \/ ValidateStep
    \/ \E pisa_err \in BOOLEAN : RenderPdf(pisa_err)

Spec == Init /\ [][Next]_vars

\* the entry of result_counts for an answer whose processing raised
Malformed == -2

\* tavily.search answers, and reading the answer raises inside the try block
\* (a result that is no dict has no .get; a 'results' value that is no list
\* cannot be iterated): the except branch, whatever was appended before
ResultRaises ==
    /\ pc = "search"
    /\ search_calls' = Append(search_calls, SearchRequest(QueryTypes[qi]))
    /\ result_counts' = Append(result_counts, Malformed)
    /\ context_with_sources' = LimitedContext(company_name)
    /\ all_sources' = <<>>
    /\ steps' = steps \o <<"search", "context">>
    /\ pc' = "synth"
    /\ UNCHANGED <<company_name, website_url, qi, json_output, structured_data, exc,
                   synth_calls, FEATURES_AVAILABLE, pdf>>
    /\ UNCHANGED <<varsTwo, varsStartup, varsSession, varsRender, varsMatch>>

\* how many results beyond max_results the service may return
Over == 1

\* The invocation with a search service that answers a query with none, with
\* max_results, or with more than max_results hits.
NextCaps ==
    \/ LoadModule
    \/ \E company \in Companies, website \in Websites : Call(company, website)
    \/ \E k \in {0, MaxRes(QueryTypes[qi]), MaxRes(QueryTypes[qi]) + Over} :
          SearchAnswers(k)
    \/ SearchRaises
    \/ ResultRaises
    \/ \E text \in {<<J(FullObject)>>, <<Word, SP, Word>>} : SynthReturns(text)
    \/ SynthRaises
    \/ ValidateStep

SpecCaps == Init /\ [][NextCaps]_vars

----------------------------------------------------------------------------
(* Two invocations of get_company_data running concurrently, as two sessions *)
(* of the application do.  Each has its own frame of locals; the objects of  *)
(* the records they return live in one heap, addressed by position.          *)

\* the company each invocation researches
CompanyOf == <<"Acme Corp", "Initech">>

\* the query types the search service has a hit for
HitQueries == {"general", "people_linkedin"}

\* what the synthesis service answers: an object without any section, an
\* object with a key that is no section, text that is no JSON, a JSON list
OutputsTwo ==
    { <<J(EmptyDict)>>, <<J(Dict(<<"summary">>,
                                 [summary |-> Dict(<<"a">>, [a |-> Num(1)])]))>>, <<Word>>,
      <<J(List(<<>>))>> }

\* the keys of a returned record whose object the caller changes afterwards
EditableKeys == {"snapshot", "why_now"}

\* the order in which the objects of a returned record are entered in the heap
KeyOrder == <<"snapshot", "openers", "why_now", "personas", "angles", "_metadata">>

\* get_company_data is called by invocation t
CallTwo(t) ==
    /\ module_state = "loaded"
    /\ inv[t].pc = "idle"
    /\ inv' = [inv EXCEPT ![t] = [NotCalled EXCEPT !.pc = "search",
                                                   !.company_name = CompanyOf[t],
                                                   !.website_url = "acme.com"]]
    /\ overlap' = (overlap \/ \E u \in Invocations \ {t} :
                                 inv[u].pc \in {"search", "synth", "validate"})
    /\ UNCHANGED <<heap, varsOne, varsStartup, varsSession, varsRender, varsMatch, default_calls>>

\* one iteration of the loop of invocation t: tavily.search answers with k results
SearchTwo(t, k) ==
    /\ inv[t].pc = "search"
    /\ k > 0 => QueryTypes[inv[t].qi] \in HitQueries
    /\ LET me == inv[t]
           query_type == QueryTypes[me.qi]
           results == SearchResponse(query_type, k)
           last == me.qi = Len(QueryTypes)
       IN inv' = [inv EXCEPT ![t] =
                     [me EXCEPT !.all_sources = @ \o SourcesOf(results, query_type),
                                !.answers = Append(@, k),
                                !.qi = IF last THEN @ ELSE @ + 1,
                                !.pc = IF last THEN "synth" ELSE "search"]]
    /\ UNCHANGED <<heap, overlap, varsOne, varsStartup, varsSession, varsRender, varsMatch, default_calls>>

\* tavily.search raises in invocation t: the except branch
SearchRaisesTwo(t) ==
    /\ inv[t].pc = "search"
    /\ inv' = [inv EXCEPT ![t].all_sources = <<>>,
                          ![t].answers = Append(@, Failed),
                          ![t].pc = "synth"]
    /\ UNCHANGED <<heap, overlap, varsOne, varsStartup, varsSession, varsRender, varsMatch, default_calls>>

\* chain.invoke returns text to invocation t
SynthTwo(t, text) ==
    /\ inv[t].pc = "synth"
    /\ inv' = [inv EXCEPT ![t].json_output = text, ![t].pc = "validate"]
    /\ UNCHANGED <<heap, overlap, varsOne, varsStartup, varsSession, varsRender, varsMatch, default_calls>>

\* DefaultObject with the defaults kept in one module-level table: every call
\* hands out the same object for a section
DefaultObject_ModuleLevel(h, section_name) ==
    LET made == {a \in DOMAIN h : /\ h[a].site = "get_default_section"
                                  /\ h[a].key = section_name}
    IN IF made = {} THEN Len(h) + 1 ELSE CHOOSE a \in made : TRUE

\* the address of the object get_default_section(section_name) returns: the
\* table "defaults" is built inside the call, so the object is a new one
DefaultObject(h, section_name) == Len(h) + 1

\* The objects of a returned record entered in the heap, key by key from
\* position i on of KeyOrder followed by the record's other keys.  A key in
\* "defaulted" holds the object
\* get_default_section returned; every other key holds an object built by
\* json.loads, by the _metadata literal or by get_fallback_data in this call.
RECURSIVE Store(_, _, _, _, _)
Store(h, refs, record, defaulted, i) ==
    LET listed == {KeyOrder[j] : j \in DOMAIN KeyOrder}
        keys == KeyOrder \o SelectSeq(KeysOf(record), LAMBDA k : k \notin listed)
    IN
    IF i > Len(keys) THEN [heap |-> h, ret |-> refs]
    ELSE LET key == keys[i]
         IN IF ~HasKey(record, key) THEN Store(h, refs, record, defaulted, i + 1)
            ELSE LET a == IF key \in defaulted THEN DefaultObject(h, key)
                          ELSE Len(h) + 1
                     site == IF key \in defaulted THEN "get_default_section"
                             ELSE "get_company_data"
                     h2 == IF a = Len(h) + 1
                           THEN Append(h, [value |-> record.d[key], site |-> site,
                                           key |-> key])
                           ELSE h
                 IN Store(h2, refs @@ (key :> a), record, defaulted, i + 1)

\* the parse-and-validate try block of invocation t, up to the return or the
\* exception
ValidateTwo(t) ==
    /\ inv[t].pc = "validate"
    /\ LET me == inv[t]
           out == Validate(me.json_output, me.company_name, me.website_url,
                           me.all_sources)
           parsed == JsonLoads(StripFence(me.json_output))
           defaulted == IF out.fallback THEN {}
                        ELSE {required_keys[i] : i \in
                                {j \in DOMAIN required_keys :
                                    ~HasKey(parsed, required_keys[j])}}
           stored == Store(heap, me.ret, out.value, defaulted, 1)
       IN IF out.kind = "raise"
          THEN /\ inv' = [inv EXCEPT ![t].pc = "raised"]
               /\ UNCHANGED heap
          ELSE /\ inv' = [inv EXCEPT ![t].pc = "done", ![t].ret = stored.ret]
               /\ heap' = stored.heap
    /\ UNCHANGED <<overlap, varsOne, varsStartup, varsSession, varsRender, varsMatch, default_calls>>

\* what the caller does to an object of the record: sets a key of a dict,
\* appends to a list
Edit(v) ==
    IF IsDict(v) THEN SetItem(v, "industry", Str("edited"))
    ELSE IF IsList(v) THEN List(Append(v.items, Str("edited")))
    ELSE v

\* the caller of invocation t changes the object under a key of the record it
\* got back
MutateTwo(t, key) ==
    /\ inv[t].pc = "done"
    /\ key \in DOMAIN inv[t].ret
    /\ key \notin inv[t].edits
    /\ heap' = [heap EXCEPT ![inv[t].ret[key]].value = Edit(@)]
    /\ inv' = [inv EXCEPT ![t].edits = @ \cup {key}]
    /\ UNCHANGED <<overlap, varsOne, varsStartup, varsSession, varsRender, varsMatch, default_calls>>

NextTwo ==
    \/ LoadModule
    \/ \E t \in Invocations : CallTwo(t)
    \/ \E t \in Invocations, k \in {0, 1} : SearchTwo(t, k)
    \/ \E t \in Invocations : SearchRaisesTwo(t)
    \/ \E t \in Invocations, text \in OutputsTwo : SynthTwo(t, text)
    \/ \E t \in Invocations : ValidateTwo(t)
    \/ \E t \in Invocations, key \in EditableKeys : MutateTwo(t, key)

SpecTwo == Init /\ [][NextTwo]_vars

----------------------------------------------------------------------------
(* get_default_section called directly, and callers changing what it gave *)

\* how many direct calls of get_default_section are followed
MaxDefaultCalls == 3

\* the section names get_default_section is called with
SectionNames == {"snapshot", "openers", "why_now", "personas", "angles", "summary"}

\* get_default_section(section_name) is called: the object it returns
DefaultCall(section_name) ==
    /\ module_state = "loaded"
    /\ Len(default_calls) < MaxDefaultCalls
    /\ LET a == DefaultObject(heap, section_name)
       IN /\ heap' = IF a = Len(heap) + 1
                     THEN Append(heap, [value |-> get_default_section(section_name),
                                        site |-> "get_default_section",
                                        key |-> section_name])
                     ELSE heap
          /\ default_calls' = Append(default_calls,
                                     [section_name |-> section_name, object |-> a,
                                      value |-> heap'[a].value, edited |-> FALSE])
    /\ UNCHANGED <<inv, overlap, varsOne, varsStartup, varsSession, varsRender, varsMatch>>

\* the caller of the c-th call changes the object it got
EditDefault(c) ==
    /\ c \in DOMAIN default_calls
    /\ ~default_calls[c].edited
    /\ heap' = [heap EXCEPT ![default_calls[c].object].value = Edit(@)]
    /\ default_calls' = [default_calls EXCEPT ![c].edited = TRUE]
    /\ UNCHANGED <<inv, overlap, varsOne, varsStartup, varsSession, varsRender, varsMatch>>

NextDefaults ==
    \/ LoadModule
    \/ \E section_name \in SectionNames : DefaultCall(section_name)
    \/ \E c \in 1..MaxDefaultCalls : EditDefault(c)

SpecDefaults == Init /\ [][NextDefaults]_vars

----------------------------------------------------------------------------
(* app.py: one session of the application and its Generate button *)

\* how many Generate clicks of the session are followed
MaxClicks == 3

\* what the user typed into the two text inputs
CompanyInputs == {""} \cup Companies
WebsiteInputs == {""} \cup Websites

\* what the search collected for the click: nothing, or one source
CollectedInputs == { <<>>, SourcesOf(SearchResponse("general", 1), "general") }

\* how chain.invoke ended for the click: it raised, or returned a text
SynthInputs ==
    { [raises |-> TRUE, text |-> <<>>] }
        \cup { [raises |-> FALSE, text |-> text] :
                 text \in { <<J(EmptyDict)>>, <<Word>>, <<J(List(<<>>))>> } }

\* get_company_data(company, website) from call to return, given what the
\* search collected and how the synthesis call ended
GetCompanyData(company, website, collected, synth) ==
    IF synth.raises
    THEN [kind |-> "raise", exc |-> "SynthesisError", fallback |-> FALSE,
          value |-> None]
    ELSE Validate(synth.text, company, website, collected)

\* how far the script run of the latest click has got
RunStage == IF clicks = <<>> THEN "idle" ELSE clicks[Len(clicks)].outcome

\* the latest click's entry of the log with its outcome, and the record
\* get_company_data returned
Ended(outcome, record) ==
    [clicks EXCEPT ![Len(clicks)] = [@ EXCEPT !.outcome = outcome, !.record = record]]

\* the Generate button is clicked with the two inputs as typed: a warning when
\* one is empty; else the run goes on to open the status box
Click(company, website) ==
    /\ module_state = "loaded"
    /\ Len(clicks) < MaxClicks
    /\ RunStage \notin {"accepted", "running", "returned", "record_stored"}
    /\ clicks' = Append(clicks,
                        IF company = "" \/ website = ""
                        THEN [company |-> company, website |-> website,
                              called |-> FALSE, outcome |-> "warning",
                              record |-> None]
                        ELSE [company |-> company, website |-> website,
                              called |-> FALSE, outcome |-> "accepted",
                              record |-> None])
    /\ UNCHANGED session_state
    /\ UNCHANGED <<varsOne, varsTwo, varsStartup, varsRender, varsMatch>>

\* the run is past st.status and the first status_box.write, and calls
\* get_company_data
CallGetCompanyData ==
    /\ RunStage = "accepted"
    /\ clicks' = [clicks EXCEPT ![Len(clicks)] =
                     [@ EXCEPT !.called = TRUE, !.outcome = "running"]]
    /\ UNCHANGED session_state
    /\ UNCHANGED <<varsOne, varsTwo, varsStartup, varsRender, varsMatch>>

\* the call of get_company_data ends: it returns a record, or it raises and
\* the except branch shows the error
Generated(collected, synth) ==
    /\ RunStage = "running"
    /\ LET click == clicks[Len(clicks)]
           out == GetCompanyData(click.company, click.website, collected, synth)
       IN clicks' = IF out.kind = "return" THEN Ended("returned", out.value)
                    ELSE Ended("error", None)
    /\ UNCHANGED session_state
    /\ UNCHANGED <<varsOne, varsTwo, varsStartup, varsRender, varsMatch>>

\* the run goes on past the three status_box.write calls and assigns the
\* record to st.session_state['structured_data']
StoreRecord ==
    /\ RunStage = "returned"
    /\ session_state' = ("structured_data" :> clicks[Len(clicks)].record) @@ session_state
    /\ clicks' = Ended("record_stored", clicks[Len(clicks)].record)
    /\ UNCHANGED <<varsOne, varsTwo, varsStartup, varsRender, varsMatch>>

\* the run goes on and assigns the company to st.session_state['company_name']
StoreCompany ==
    /\ RunStage = "record_stored"
    /\ session_state' = ("company_name" :> Str(clicks[Len(clicks)].company)) @@ session_state
    /\ clicks' = Ended("stored", clicks[Len(clicks)].record)
    /\ UNCHANGED <<varsOne, varsTwo, varsStartup, varsRender, varsMatch>>

\* the user touched the page during the run, a second Generate click
\* included: Streamlit ends the script at the next point where it looks for
\* a pending stop or rerun, with an exception that "except Exception" does
\* not catch.  Such a point is inside st.status and each status_box.write
\* call, before get_company_data is called or after it returned, and at the
\* start of each assignment to st.session_state, before the value is
\* written: the run ends with nothing stored, or with the record stored and
\* the company not
ScriptStopped ==
    /\ RunStage \in {"accepted", "returned", "record_stored"}
    /\ clicks' = Ended("stopped", clicks[Len(clicks)].record)
    /\ UNCHANGED session_state
    /\ UNCHANGED <<varsOne, varsTwo, varsStartup, varsRender, varsMatch>>

NextSession ==
    \/ LoadModule
    \/ \E company \in CompanyInputs, website \in WebsiteInputs : Click(company, website)
    \/ CallGetCompanyData
    \/ \E collected \in CollectedInputs, synth \in SynthInputs :
          Generated(collected, synth)
    \/ StoreRecord
    \/ StoreCompany
    \/ ScriptStopped

SpecSession == Init /\ [][NextSession]_vars

----------------------------------------------------------------------------
(* Feature matching: keyword overlap between a record's text and the
   capability table *)

\* the capability table, its entries in the order the dictionary literal
\* lists them
WORKSHOP_FEATURES ==
    <<
       [key |-> "leadership_communication",
        name |-> "Leadership Communication Hub",
        features |-> <<"Drag-and-drop functionality", "Template library", "Ghostwriting",
                       "Scheduling", "Custom built email templates">>,
        pain_points |-> <<"leadership transition", "new ceo", "executive communication",
                          "vision alignment", "change management">>,
        tier |-> "Essential"],
       [key |-> "frontline_mobile",
        name |-> "Mobile-First Frontline Reach",
        features |-> <<"Mobile/responsive design", "SMS", "Pages", "QR codes",
                       "Additional phone numbers for SMS">>,
        pain_points |-> <<"frontline", "deskless", "shift workers", "clinical staff",
                          "field employees", "mobile workforce">>,
        tier |-> "Essential + SMS Add-on"],
       [key |-> "audience_segmentation",
        name |-> "Intelligent Audience Targeting",
        features |-> <<"Audience segmentation", "Dynamic distribution lists",
                       "Filter by department, role, location, etc.",
                       "Filter by custom properties", "Automated time zone sending">>,
        pain_points |-> <<"multiple locations", "distributed workforce", "multi-site",
                          "geographic spread", "targeted messaging">>,
        tier |-> "Enhanced"],
       [key |-> "hybrid_workforce",
        name |-> "Hybrid Workforce Suite",
        features |-> <<"Microsoft Teams", "Slack", "Sharepoint", "Workvivo",
                       "Shareable URL", "Campaign archives">>,
        pain_points |-> <<"hybrid work", "remote", "work from home", "distributed teams",
                          "flexible work">>,
        tier |-> "Essential"],
       [key |-> "integration_ecosystem",
        name |-> "HR System Integration",
        features |-> <<"Workday", "UKG Pro", "ADP Workforce Now", "SAP SuccessFactors",
                       "Oracle", "Ceridian Dayforce", "Azure Active Directory", "Okta",
                       "Single Sign On (SSO)">>,
        pain_points |-> <<"workday", "adp", "hris integration", "employee data", "sso",
                          "active directory">>,
        tier |-> "Premium (HRIS) / Essential (Directory)"],
       [key |-> "analytics_roi",
        name |-> "Engagement Analytics & ROI",
        features |-> <<"Open, click, read time, and device analytics", "Click maps",
                       "Account-wide analytics", "Campaign tagging & analytics",
                       "Monthly email performance summaries",
                       "Individual recipient engagement data", "Downloadable PDF reports">>,
        pain_points |-> <<"engagement metrics", "roi", "analytics", "measurement", "reporting",
                          "data-driven">>,
        tier |-> "Essential"],
       [key |-> "multilingual",
        name |-> "Global Team Communication",
        features |-> <<"Language translation", "US/EU/CA-based servers",
                       "Automated time zone sending">>,
        pain_points |-> <<"international", "global", "multilingual", "multiple languages",
                          "language barriers">>,
        tier |-> "Premium"],
       [key |-> "change_management",
        name |-> "Change Management Toolkit",
        features |-> <<"Communications calendar", "Campaign management",
                       "Template management", "Blackout dates">>,
        pain_points |-> <<"acquisition", "merger", "reorganization", "transformation",
                          "change initiative">>,
        tier |-> "Essential (Blackout dates is Premium)"],
       [key |-> "employee_engagement",
        name |-> "Employee Engagement Tools",
        features |-> <<"Embedded surveys", "AI-assisted features", "AI content tools",
                       "GIPHY integration", "Unsplash photo integration">>,
        pain_points |-> <<"engagement", "retention", "turnover", "culture",
                          "employee experience">>,
        tier |-> "Enhanced"],
       [key |-> "rapid_deployment",
        name |-> "Fast Implementation",
        features |-> <<"Onboarding management", "Software training for new users",
                       "Dedicated account management", "Email support">>,
        pain_points |-> <<"quick setup", "fast deployment", "time to value", "ease of use">>,
        tier |-> "Essential"],
       [key |-> "security_compliance",
        name |-> "Enterprise Security",
        features |-> <<"SOC 2 Type II", "GDPR compliant", "Penetration testing",
                       "Access control", "Automatic encrypted backups", "Disaster recovery">>,
        pain_points |-> <<"security", "compliance", "data protection", "healthcare",
                          "financial services", "regulated">>,
        tier |-> "Essential"],
       [key |-> "scale_enterprise",
        name |-> "Enterprise Scale",
        features |-> <<"Unlimited storage", "Unlimited admins", "User roles management",
                       "Permission management", "Unlimited user licenses">>,
        pain_points |-> <<"large organization", "5000+", "10000+", "enterprise", "scale">>,
        tier |-> "Enhanced/Premium"]
    >>

\* the character c lower-cased
LowerChar(c) ==
    LET UpperLetters == "ABCDEFGHIJKLMNOPQRSTUVWXYZ"
        LowerLetters == "abcdefghijklmnopqrstuvwxyz"
    IN IF \E i \in 1..26 : SubSeq(UpperLetters, i, i) = c
       THEN LET i == CHOOSE j \in 1..26 : SubSeq(UpperLetters, j, j) = c
            IN SubSeq(LowerLetters, i, i)
       ELSE c

RECURSIVE LowerFrom(_, _)
LowerFrom(s, i) ==
    IF i > Len(s) THEN "" ELSE LowerChar(SubSeq(s, i, i)) \o LowerFrom(s, i + 1)

\* s.lower()
Lower(s) == LowerFrom(s, 1)

\* "kw in text" on two strings
Contains(text, kw) ==
    \E i \in 1..(Len(text) - Len(kw) + 1) : SubSeq(text, i, i + Len(kw) - 1) = kw

\* str(v) of a scalar; the repr of a list or a dict is outside this model
PyStr(v) ==
    CASE v.t = "str" -> v.s
      [] v.t = "num" -> ToString(v.n)
      [] v.t = "bool" -> IF v.b THEN "True" ELSE "False"
      [] v.t = "null" -> "None"

RECURSIVE Concat(_)
Concat(seqs) == IF seqs = <<>> THEN <<>> ELSE Head(seqs) \o Concat(Tail(seqs))

RECURSIVE Join(_, _)
\* sep.join(strings)
Join(strings, sep) ==
    IF strings = <<>> THEN ""
    ELSE IF Len(strings) = 1 THEN strings[1]
    ELSE strings[1] \o sep \o Join(Tail(strings), sep)

\* the values whose .lower() the function takes, in the order it appends them
LoweredValues(sd) ==
    LET snapshot == Get(sd, "snapshot", EmptyDict)
        events == Elements(Get(snapshot, "change_events", List(<<>>)))
        techs == Elements(Get(snapshot, "tech_stack", List(<<>>)))
        why_now == Elements(Get(sd, "why_now", List(<<>>)))
        personas == Elements(Get(sd, "personas", List(<<>>)))
        StrItems(v) == [i \in DOMAIN Elements(v) |-> Str(PyStr(Elements(v)[i]))]
    IN <<Get(snapshot, "industry", Str("")), Get(snapshot, "size", Str("")),
         Get(snapshot, "footprint", Str(""))>>
       \o [i \in DOMAIN events |->
              IF IsDict(events[i]) THEN Get(events[i], "event", Str(""))
              ELSE Str(PyStr(events[i]))]
       \o [i \in DOMAIN techs |->
              IF IsDict(techs[i]) THEN Get(techs[i], "tool", Str(""))
              ELSE Str(PyStr(techs[i]))]
       \o Concat([i \in DOMAIN why_now |->
              IF IsDict(why_now[i])
              THEN <<Get(why_now[i], "title", Str("")),
                     Get(why_now[i], "description", Str(""))>>
              ELSE <<Str(PyStr(why_now[i]))>>])
       \o Concat([i \in DOMAIN personas |->
              IF IsDict(personas[i])
              THEN <<Get(personas[i], "title", Str(""))>>
                   \o StrItems(Get(personas[i], "goals", List(<<>>)))
                   \o StrItems(Get(personas[i], "fears", List(<<>>)))
              ELSE <<>>])

\* the function raises before it scores: a section that has no .get, a list
\* that cannot be iterated, or a value that has no .lower()
MatchRaises(sd) ==
    LET snapshot == Get(sd, "snapshot", EmptyDict)
        Walkable(v) == Iterable(v)
    IN \/ ~IsDict(snapshot)
       \/ ~Walkable(Get(snapshot, "change_events", List(<<>>)))
       \/ ~Walkable(Get(snapshot, "tech_stack", List(<<>>)))
       \/ ~Walkable(Get(sd, "why_now", List(<<>>)))
       \/ ~Walkable(Get(sd, "personas", List(<<>>)))
       \/ \E i \in DOMAIN Elements(Get(sd, "personas", List(<<>>))) :
              LET persona == Elements(Get(sd, "personas", List(<<>>)))[i]
              IN /\ IsDict(persona)
                 /\ \/ ~Walkable(Get(persona, "goals", List(<<>>)))
                    \/ ~Walkable(Get(persona, "fears", List(<<>>)))
       \/ \E i \in DOMAIN LoweredValues(sd) : ~IsStr(LoweredValues(sd)[i])

\* ' '.join(text_to_analyze)
CombinedText(sd) ==
    Join([i \in DOMAIN LoweredValues(sd) |-> Lower(LoweredValues(sd)[i].s)], " ")

\* the pain points of one table entry found in the text, in table order
MatchedKeywords(feature_data, combined_text) ==
    SelectSeq(feature_data.pain_points, LAMBDA p : Contains(combined_text, p))

\* feature_scores: the table entries that scored above zero, in table order
FeatureScores(combined_text) ==
    LET scored == [i \in DOMAIN WORKSHOP_FEATURES |->
                      [score |-> Len(MatchedKeywords(WORKSHOP_FEATURES[i],
                                                     combined_text)),
                       data |-> WORKSHOP_FEATURES[i],
                       matched_keywords |->
                           MatchedKeywords(WORKSHOP_FEATURES[i], combined_text)]]
    IN SelectSeq(scored, LAMBDA f : f.score > 0)

RECURSIVE SortedByScore(_)
\* sorted(..., key=score, reverse=True): highest score first, equal scores in
\* the order they had
SortedByScore(scores) ==
    IF scores = <<>> THEN <<>>
    ELSE LET i == CHOOSE j \in DOMAIN scores :
                      /\ \A k \in DOMAIN scores : scores[k].score <= scores[j].score
                      /\ \A k \in 1..(j - 1) : scores[k].score < scores[j].score
         IN <<scores[i]>>
            \o SortedByScore(SubSeq(scores, 1, i - 1)
                             \o SubSeq(scores, i + 1, Len(scores)))

\* TopFeatures taking the scored entries in table order, unsorted
TopFeatures_Unsorted(combined_text) ==
    LET sorted_features == Take(FeatureScores(combined_text), 4)
    IN [i \in DOMAIN sorted_features |->
           [key |-> sorted_features[i].data.key,
            name |-> sorted_features[i].data.name,
            features |-> sorted_features[i].data.features,
            tier |-> sorted_features[i].data.tier,
            relevance_score |-> sorted_features[i].score,
            matched_keywords |-> sorted_features[i].matched_keywords]]

\* the entries the function returns for a text
TopFeatures(combined_text) ==
    LET sorted_features == Take(SortedByScore(FeatureScores(combined_text)), 4)
    IN [i \in DOMAIN sorted_features |->
           [key |-> sorted_features[i].data.key,
            name |-> sorted_features[i].data.name,
            features |-> sorted_features[i].data.features,
            tier |-> sorted_features[i].data.tier,
            relevance_score |-> sorted_features[i].score,
            matched_keywords |-> sorted_features[i].matched_keywords]]

\* match_features_to_company(structured_data): it raises, or returns the
\* top entries
match_features_to_company(sd) ==
    IF MatchRaises(sd)
    THEN [kind |-> "raise", value |-> <<>>]
    ELSE [kind |-> "return", value |-> TopFeatures(CombinedText(sd))]

\* the records the matcher is called with: the texts of one record's fields
MatchInputs ==
    {Dict(<<"snapshot", "why_now", "personas">>,
          [snapshot |-> Dict(<<"industry", "size", "footprint", "change_events", "tech_stack">>, [industry |-> industry, size |-> size,
                              footprint |-> footprint,
                              change_events |-> change_events,
                              tech_stack |-> tech_stack]),
           why_now |-> why_now, personas |-> personas]) :
        industry \in {Str("Healthcare"), Str("software"), None},
        size \in {Str("10000+ employees"), Str("small")},
        footprint \in {Str("Global, multiple locations"), Str("hybrid")},
        change_events \in
            {List(<<>>),
             List(<<Dict(<<"event">>, [event |-> Str("Merger with Initech; new CEO named")])>>),
             List(<<Str("Acquisition of a Remote-first startup")>>)},
        \* a list, or a dict whose keys the loop visits
        tech_stack \in {List(<<>>), List(<<Dict(<<"tool">>, [tool |-> Str("Workday")])>>),
                        Dict(<<"hybrid", "work">>,
                             [hybrid |-> Num(1), work |-> Num(2)]),
                        Dict(<<"work", "hybrid">>,
                             [hybrid |-> Num(1), work |-> Num(2)])},
        why_now \in
            {List(<<Dict(<<"title", "description">>, [title |-> Str("Frontline turnover"),
                          description |->
                              Str("Retention of deskless shift workers")])>>),
             List(<<Str("budget season")>>)},
        personas \in
            {List(<<>>),
             List(<<Dict(<<"title", "goals", "fears">>,
                         [title |-> Str("VP Internal Communications"),
                          goals |-> List(<<Str("Raise engagement metrics"),
                                           Str("Prove ROI")>>),
                          fears |-> List(<<Str("Compliance gaps")>>)])>>)}}

\* one direct call of match_features_to_company
MatchCall(sd) ==
    /\ match_input = None
    /\ match_input' = sd
    /\ top_features' = match_features_to_company(sd)
    /\ UNCHANGED <<varsOne, varsTwo, varsStartup, varsSession, varsRender>>

NextMatch == \E sd \in MatchInputs : MatchCall(sd)

SpecMatch == Init /\ [][NextMatch]_vars

----------------------------------------------------------------------------
(* What the rendered document shows *)

\* the change events of the snapshot block: item.get('event', str(item)) of the
\* first 4 items, or str(item)
ShownChangeEvents(snapshot) ==
    LET change_events_items == Get(snapshot, "change_events", List(<<>>))
        shown == SliceItems(change_events_items, 4)
    IN IF Truthy(change_events_items)
       THEN [i \in DOMAIN shown |->
                IF IsDict(shown[i])
                THEN IF HasKey(shown[i], "event") THEN shown[i].d.event
                     ELSE Str(PyStr(shown[i]))
                ELSE Str(PyStr(shown[i]))]
       ELSE <<>>

\* the titles of the Why Now block: the first 3 items
ShownWhyNow(why_now) ==
    LET shown == SliceItems(why_now, 3)
    IN [i \in DOMAIN shown |->
           IF IsDict(shown[i]) THEN Get(shown[i], "title", Str(""))
           ELSE Str("Point")]

\* the cards of the personas block: the first 2 personas, each with its first
\* 3 goals and first 3 fears
ShownPersonas(personas) ==
    LET shown == SliceItems(personas, 2)
    IN [i \in DOMAIN shown |->
           IF IsDict(shown[i])
           THEN [title |-> Get(shown[i], "title", Str("Unknown")),
                 goals |-> SliceItems(Get(shown[i], "goals", List(<<>>)), 3),
                 fears |-> SliceItems(Get(shown[i], "fears", List(<<>>)), 3)]
           ELSE [title |-> Str(PyStr(shown[i])), goals |-> <<>>, fears |-> <<>>]]

\* the cards of the angles block: the first 2 angles, each with a badge for
\* its first 3 sources
ShownAngles(angles) ==
    LET shown == SliceItems(angles, 2)
    IN [i \in DOMAIN shown |->
           IF IsDict(shown[i])
           THEN [title |-> Get(shown[i], "title", Str("")),
                 badges |-> IF Truthy(Get(shown[i], "sources", List(<<>>)))
                            THEN SliceItems(Get(shown[i], "sources", List(<<>>)), 3)
                            ELSE <<>>]
           ELSE [title |-> Str("Approach"), badges |-> <<>>]]

\* workshop_features_matches: what the matcher returned, or nothing when the
\* features module is missing or the matcher raised
FeatureMatches(sd, features_available) ==
    IF features_available /\ match_features_to_company(sd).kind = "return"
    THEN match_features_to_company(sd).value
    ELSE <<>>

\* ShownFeatures with a card for every match
ShownFeatures_EveryMatch(workshop_features_matches) ==
    LET shown == workshop_features_matches
    IN [i \in DOMAIN shown |->
           [name |-> shown[i].name, tier |-> shown[i].tier,
            features |-> Take(shown[i].features, 3)]]

\* the cards of the features block: the first 3 matches, each with its first 3
\* features
ShownFeatures(workshop_features_matches) ==
    LET shown == Take(workshop_features_matches, 3)
    IN [i \in DOMAIN shown |->
           [name |-> shown[i].name, tier |-> shown[i].tier,
            features |-> Take(shown[i].features, 3)]]

\* the rows of the sources block: the first 8 sources, numbered from 1, a title
\* of more than 50 characters cut to 47 and "..."
ShownSources(metadata) ==
    LET all_sources_ == Get(metadata, "all_sources", List(<<>>))
        shown == SliceItems(all_sources_, 8)
    IN [i \in DOMAIN shown |->
           LET title == Get(shown[i], "title", Str("Source"))
           IN [idx |-> i,
               url |-> Get(shown[i], "url", Str("")),
               title |-> IF IsStr(title) /\ Len(title.s) > 50
                         THEN Str(SubSeq(title.s, 1, 47) \o "...") ELSE title]]

\* the list contents of the document create_styled_pdf builds from a record
Document(sd, features_available) ==
    [change_events |-> ShownChangeEvents(Get(sd, "snapshot", EmptyDict)),
     why_now |-> ShownWhyNow(Get(sd, "why_now", List(<<>>))),
     personas |-> ShownPersonas(Get(sd, "personas", List(<<>>))),
     angles |-> ShownAngles(Get(sd, "angles", List(<<>>))),
     features |-> ShownFeatures(FeatureMatches(sd, features_available)),
     sources |-> ShownSources(Get(sd, "_metadata", EmptyDict))]

\* how far past a layout cap the lists of a rendered record go
Extra == 1

\* the records the renderer is called with: lists shorter and longer than the
\* caps, and strings where lists are expected
RenderInputs ==
    LET ChangeEventItem(i) == Dict(<<"event">>, [event |-> Str("Event " \o ToString(i))])
        WhyNowEntry(i) ==
            Dict(<<"title", "description">>, [title |-> Str("Why " \o ToString(i)),
                  description |-> Str("Because " \o ToString(i))])
        \* odd personas have long goals and short fears, even ones the reverse
        PersonaEntry(i) ==
            Dict(<<"title", "goals", "fears">>, [title |-> Str("Persona " \o ToString(i)),
                  goals |-> List([j \in 1..(IF i % 2 = 1 THEN 3 + Extra ELSE 2) |->
                                     Str("Goal " \o ToString(i) \o "." \o ToString(j))]),
                  fears |-> List([j \in 1..(IF i % 2 = 1 THEN 1 ELSE 3 + Extra) |->
                                     Str("Fear " \o ToString(i) \o "." \o ToString(j))])])
        \* odd angles cite more sources than fit, even ones none
        AngleEntry(i) ==
            Dict(<<"title", "sources">>, [title |-> Str("Angle " \o ToString(i)),
                  sources |-> List([j \in 1..(IF i % 2 = 1 THEN 3 + Extra ELSE 0) |->
                                       Num(j)])])
        \* even sources have a title of more than 50 characters
        SourceEntry(i) ==
            Dict(<<"url", "title">>, [url |-> Str("https://example.com/" \o ToString(i)),
                  title |-> Str(IF i % 2 = 0
                                THEN "A very long headline about the company's annual report "
                                     \o ToString(i)
                                ELSE "Source " \o ToString(i))])
        Record(industry, change_events, why_now, personas, angles, ns) ==
            Dict(<<"snapshot", "why_now", "personas", "angles", "_metadata">>,
                 [snapshot |-> Dict(<<"industry", "change_events">>, [industry |-> industry,
                                     change_events |-> change_events]),
                  why_now |-> why_now, personas |-> personas, angles |-> angles,
                  _metadata |-> Dict(<<"all_sources">>, [all_sources |->
                                         List([i \in 1..ns |-> SourceEntry(i)])])])
    IN {Record(industry, List([i \in 1..ne |-> ChangeEventItem(i)]),
               List([i \in 1..nw |-> WhyNowEntry(i)]),
               List([i \in 1..np |-> PersonaEntry(i)]),
               List([i \in 1..na |-> AngleEntry(i)]), ns) :
            \* industry texts that match no, 3 and 5 entries of the capability table
            industry \in {Str("software"), Str("Healthcare, frontline, remote"),
                          Str("Global healthcare, frontline, remote after merger")},
            ne \in {0, 4 + Extra}, nw \in {2, 3 + Extra},
            np \in {1, 2 + Extra}, na \in {1, 2 + Extra}, ns \in {7, 8 + Extra}}
       \cup {Record(Str("software"), Str("abcdef"), Str("abcdef"), Str("abc"),
                    Str("abc"), 8 + Extra),
             Record(Str("software"), List(<<Str("Plain event")>>),
                    List(<<Str("plain")>>),
                    List(<<Dict(<<"title", "goals", "fears">>,
                                [title |-> Str("P"), goals |-> Str("xyzw"),
                                 fears |-> List(<<Str("f")>>)]),
                           Str("plain persona")>>),
                    List(<<Dict(<<"title", "sources">>,
                                [title |-> Str("A"), sources |-> Str("abcd")])>>),
                    1)}

\* one direct call of create_styled_pdf: it raises, or the document is built
CreateStyledPdf(sd) ==
    /\ render_input = None
    /\ render_input' = sd
    /\ document' = IF RenderRaises(sd, FEATURES_AVAILABLE)
                   THEN [t |-> "raised"]
                   ELSE [t |-> "document", shows |-> Document(sd, FEATURES_AVAILABLE)]
    /\ UNCHANGED <<varsOne, varsTwo, varsStartup, varsSession, varsMatch>>

NextRender == \E sd \in RenderInputs : CreateStyledPdf(sd)

SpecRender == Init /\ [][NextRender]_vars

----------------------------------------------------------------------------
(* Properties *)

\* get_company_data has returned a record
Returned == pc = "done"

\* the text json.loads is given
CleanJson == StripFence(json_output)

\* the record came from the parse-success path
ParsedOk == Returned /\ Parses(CleanJson)

\* the record came from the fallback path
FellBack == Returned /\ ~Parses(CleanJson)

\* some search of this invocation raised
SearchFailed == \E i \in DOMAIN result_counts : result_counts[i] = Failed

SectionKeys == {"snapshot", "why_now", "personas", "angles", "openers", "_metadata"}

\* C1: every record get_company_data returns has the six top-level keys
\* snapshot, why_now, personas, angles, openers and _metadata.
C1_AllSixKeys == Returned => SectionKeys \subseteq DOMAIN structured_data.d

\* C2: whatever text the synthesis service returns, get_company_data raises
\* nothing: the only exception that reaches the caller is a failure of the
\* synthesis call itself.
C2_OnlySynthesisFailureRaises ==
    pc = "raised" => synth_calls[Len(synth_calls)].outcome = "raise"

\* C3: when the synthesis text does not parse as JSON, the returned record is
\* exactly get_fallback_data(company_name, website_url): sources_count 0, no
\* sources, one placeholder persona and one 'Additional research needed'
\* why_now item, however many sources the search collected.
C3_NonJsonGivesFallback ==
    FellBack =>
        /\ structured_data = get_fallback_data(company_name, website_url)
        /\ structured_data.d["_metadata"].d.sources_count = Num(0)
        /\ structured_data.d["_metadata"].d.all_sources = List(<<>>)
        /\ structured_data.d["_metadata"].d.company_name = Str(company_name)
        /\ Len(structured_data.d["personas"].items) = 1
        /\ Len(structured_data.d["why_now"].items) = 1
        /\ structured_data.d["why_now"].items[1].d.title = Str("Additional research needed")

\* C3 witness: a fallback record returned although the search collected sources
C3_Witness == FellBack /\ Len(all_sources) = MaxSources /\ json_output # <<>>

\* the default the specification documents for a section
DocumentedDefault(key) ==
    IF key = "snapshot"
    THEN [t |-> "dict",
          d |-> [industry |-> Str("Unknown"), size |-> Str("Unknown"),
                 location |-> Str("Unknown"), fiscal_year |-> Str("Unknown"),
                 glassdoor_score |-> Str("Unknown"),
                 tech_stack |-> [t |-> "list", items |-> <<>>],
                 change_events |-> [t |-> "list", items |-> <<>>]],
          order |-> <<"industry", "size", "location", "fiscal_year",
                      "glassdoor_score", "tech_stack", "change_events">>]
    ELSE [t |-> "list", items |-> <<>>]

\* C4: on parse success, exactly the required keys absent from the parsed
\* object are set to their documented default, and every key the parsed object
\* had, other than _metadata, keeps its parsed value.
C4_RepairIsPerSection ==
    ParsedOk =>
        LET parsed == JsonLoads(CleanJson)
            req == {"snapshot", "why_now", "personas", "angles"}
        IN /\ DOMAIN structured_data.d = DOMAIN parsed.d \cup req \cup {"_metadata"}
           /\ \A key \in req \ DOMAIN parsed.d :
                  structured_data.d[key] = DocumentedDefault(key)
           /\ \A key \in DOMAIN parsed.d \ {"_metadata"} :
                  structured_data.d[key] = parsed.d[key]

\* C4 witness: JSON missing only angles, the other sections present
C4_Witness ==
    /\ ParsedOk
    /\ DOMAIN JsonLoads(CleanJson).d = SectionKeys \ {"angles", "_metadata"}
    /\ structured_data.d["angles"] = List(<<>>)
    /\ structured_data.d["snapshot"] = SnapshotItem

\* sum of the result counts of the searches that answered
RECURSIVE SumReturned(_)
SumReturned(counts) ==
    IF counts = <<>> THEN 0
    ELSE (IF Head(counts) = Failed THEN 0 ELSE Head(counts)) + SumReturned(Tail(counts))

\* C5: a search that raises does not stop the others: all seven queries are
\* executed and the Source Records of the queries that answered are kept.
C5_SearchFailuresIsolated ==
    pc \in {"synth", "validate", "done"} =>
        /\ Len(search_calls) = Len(QueryTypes)
        /\ Len(all_sources) = SumReturned(result_counts)

\* C6: when the search phase throws, nothing propagates: the source list is
\* empty, the context is 'Limited information available for <company_name>.',
\* and the synthesis service is invoked next with that context.
C6_SearchFailureDegrades ==
    SearchFailed =>
        LET limited == << [tag |-> "Limited",
                           text |-> "Limited information available for "
                                        \o company_name \o "."] >>
        IN /\ all_sources = <<>>
           /\ context_with_sources = limited
           /\ pc \in {"synth", "validate", "done", "raised"}
           /\ pc = "synth" => synth_calls = <<>>
           /\ pc # "synth" =>
                  /\ Len(synth_calls) = 1
                  /\ synth_calls[1].context = limited
                  /\ synth_calls[1].company_name = company_name
           /\ pc = "raised" => exc \in {"SynthesisError", "TypeError"}

\* C6 witness: a record returned after a search raised part-way through
C6_Witness ==
    /\ SearchFailed
    /\ Returned
    /\ Len(result_counts) > 1
    /\ result_counts[1] > 0
    /\ company_name = "Initech"

\* C7: when the synthesis call raises, the exception reaches the caller and no
\* record is returned: no default repair, no fallback record.
C7_SynthesisFailurePropagates ==
    (\E i \in DOMAIN synth_calls : synth_calls[i].outcome = "raise") =>
        /\ pc = "raised"
        /\ exc = "SynthesisError"
        /\ structured_data = None
        /\ pdf = "none"

\* C7 witness: the synthesis call raised after the search collected sources
C7_Witness ==
    /\ synth_calls # <<>>
    /\ synth_calls[1].outcome = "raise"
    /\ pc = "raised"
    /\ all_sources # <<>>

WhyNowCap == 3
PersonasCap == 2

\* C8: every returned record has at most 3 why_now items and at most 2
\* personas, even when the generator wrote more.
C8_ListsCapped ==
    Returned =>
        /\ IsList(structured_data.d["why_now"]) =>
               Len(structured_data.d["why_now"].items) <= WhyNowCap
        /\ IsList(structured_data.d["personas"]) =>
               Len(structured_data.d["personas"].items) <= PersonasCap

\* the query categories in the order the specification lists them
CategoryOrder == <<"general", "changes", "tech", "culture",
                   "people_internal", "people_corporate", "people_linkedin">>

\* number of results of the first q answers
RECURSIVE Offset(_, _)
Offset(counts, q) == IF q = 0 THEN 0 ELSE Offset(counts, q - 1) + counts[q]

\* the answer the N-th source belongs to, by cumulative offsets
AnswerOf(counts, N) ==
    CHOOSE q \in 1..Len(counts) : Offset(counts, q - 1) < N /\ N <= Offset(counts, q)

\* C9: source indexing is order-preserving and a function of the upstream
\* answers alone: with result counts [a, b, c, ...] in the fixed query order,
\* the N-th source carries the category implied by the cumulative offsets, the
\* results of one query keep their returned order, and _metadata.all_sources
\* is that list.
C9_SourceIndexing ==
    ~SearchFailed =>
        /\ Len(all_sources) = Offset(result_counts, Len(result_counts))
        /\ \A N \in 1..Len(all_sources) :
               LET q == AnswerOf(result_counts, N)
                   j == N - Offset(result_counts, q - 1)
                   hit == SearchResult(CategoryOrder[q], j)
               IN /\ all_sources[N].d.query_type = Str(CategoryOrder[q])
                  /\ all_sources[N].d.content = hit.d.content
                  /\ all_sources[N].d.url = IF j % 2 = 1 THEN hit.d.url ELSE Str("")
                  /\ all_sources[N].d.title = IF j % 2 = 1 THEN hit.d.title ELSE Str("N/A")
        /\ ParsedOk =>
               /\ structured_data.d["_metadata"].d.all_sources = List(all_sources)
               /\ structured_data.d["_metadata"].d.sources_count = Num(Len(all_sources))

\* C9 witness: a record whose two sources came from one query, after a query
\* that returned nothing
C9_Witness ==
    /\ ParsedOk
    /\ ~SearchFailed
    /\ result_counts[1] = 0
    /\ \E q \in 2..Len(result_counts) : result_counts[q] = 2
    /\ Len(structured_data.d["_metadata"].d.all_sources.items) = 2

\* C10: create_styled_pdf completes without raising on every record
\* get_company_data returns.
C10_AlwaysRenders == pdf # "raised"

\* the fallback record of this invocation
OwnFallback == get_fallback_data(company_name, website_url)

\* the synthesis text was the JSON serialisation of this invocation's fallback record
EchoedFallback == Returned /\ json_output = <<J(OwnFallback)>>

\* C11 as stated: the fallback record, serialised and fed back through the
\* validation step, comes out identical, whatever the collected source list.
C11_RoundTripIdentical == EchoedFallback => structured_data = OwnFallback

\* C11 amended: the round trip keeps every section of the fallback record
\* except _metadata, which becomes the envelope of the call's inputs and the
\* collected sources; the record is identical to the fallback record exactly
\* when no source was collected.
C11_RoundTripUpToMetadata ==
    EchoedFallback =>
        /\ DOMAIN structured_data.d = DOMAIN OwnFallback.d
        /\ \A key \in DOMAIN OwnFallback.d \ {"_metadata"} :
               structured_data.d[key] = OwnFallback.d[key]
        /\ structured_data.d["_metadata"].d.company_name = Str(company_name)
        /\ structured_data.d["_metadata"].d.website = Str(website_url)
        /\ structured_data.d["_metadata"].d.sources_count = Num(Len(all_sources))
        /\ structured_data.d["_metadata"].d.all_sources = List(all_sources)
        /\ (structured_data = OwnFallback) <=> (all_sources = <<>>)

\* C11 witness: the echoed fallback validated after the search collected sources
C11_Witness == EchoedFallback /\ Len(all_sources) = MaxSources

\* C12: on parse success the record's _metadata is exactly the envelope
\* {company_name, website, sources_count, all_sources} of the call's inputs and
\* the collected sources, whatever _metadata the generator's object carried
C12_MetadataIsEnvelope ==
    ParsedOk =>
        structured_data.d["_metadata"] =
            [t |-> "dict",
             d |-> [company_name |-> [t |-> "str", s |-> company_name],
                    website |-> [t |-> "str", s |-> website_url],
                    sources_count |-> [t |-> "num", n |-> Len(all_sources)],
                    all_sources |-> [t |-> "list", items |-> all_sources]],
             order |-> <<"company_name", "website", "sources_count", "all_sources">>]

\* a parsed object that carried its own _metadata, with sources collected
C12_Witness ==
    /\ ParsedOk
    /\ HasKey(JsonLoads(CleanJson), "_metadata")
    /\ JsonLoads(CleanJson).d["_metadata"] # structured_data.d["_metadata"]
    /\ Len(all_sources) > 0

\* every search the invocation attempted raised: the first request failed and
\* the loop was left
AllSearchesFailed == result_counts = <<Failed>>

\* C13: when the search service is unreachable for every query, the returned
\* record has _metadata.sources_count 0 and an empty _metadata.all_sources, on
\* the parse path and on the fallback path alike
C13_UnreachableSearchCountsZero ==
    (Returned /\ AllSearchesFailed) =>
        /\ structured_data.d["_metadata"].d.sources_count = [t |-> "num", n |-> 0]
        /\ structured_data.d["_metadata"].d.all_sources = [t |-> "list", items |-> <<>>]

\* the search failed at once, the synthesis output parsed and a record came back
C13_Witness ==
    /\ ParsedOk
    /\ AllSearchesFailed
    /\ Len(search_calls) = 1
    /\ Len(synth_calls) = 1

\* the Source Records a query type contributed to the flattened list
ContributedBy(query_type) ==
    {i \in DOMAIN all_sources : all_sources[i].d.query_type.s = query_type}

\* C14: each general query contributes at most 5 Source Records and each
\* persona query at most 7, whatever number of results the service returned
C14_PerQueryCapped ==
    \A i \in DOMAIN QueryTypes :
        Cardinality(ContributedBy(QueryTypes[i])) <=
            (IF QueryTypes[i] \in {"general", "changes", "tech", "culture"}
             THEN GeneralMaxResults ELSE PeopleMaxResults)

\* the place of a step in the forward order collect, assemble, synthesize, validate
StepOrder == <<"search", "context", "synthesize", "parse", "fallback">>

StepRank(step) == CHOOSE r \in DOMAIN StepOrder : StepOrder[r] = step

\* how often a step occurs in the log of the invocation
Occurrences(step) == Cardinality({i \in DOMAIN steps : steps[i] = step})

\* C15: the steps of an invocation go forward only: every search request comes
\* before the context is fixed, the context before the one synthesis call, the
\* synthesis call before the parse, and the fallback record is built only
\* right after a parse of the synthesis output that failed
C15_StepsGoForward ==
    /\ \A i, j \in DOMAIN steps :
          i < j => StepRank(steps[i]) <= StepRank(steps[j])
    /\ Occurrences("search") = Len(search_calls)
    /\ Occurrences("synthesize") = Len(synth_calls)
    /\ Occurrences("context") <= 1
    /\ Occurrences("synthesize") <= 1
    /\ Occurrences("parse") <= 1
    /\ Occurrences("synthesize") = 1 => Occurrences("context") = 1
    /\ pc \in {"validate", "done", "raised"} => Occurrences("synthesize") = 1
    /\ \A i \in DOMAIN steps :
          steps[i] = "fallback" =>
              /\ i > 1
              /\ steps[i - 1] = "parse"
              /\ ~Parses(StripFence(json_output))

\* all seven queries were searched, the synthesis output did not parse and the
\* fallback record was returned
C15_Witness ==
    /\ pc = "done"
    /\ Len(search_calls) = Len(QueryTypes)
    /\ Len(all_sources) > 0
    /\ steps = [i \in 1..Len(QueryTypes) |-> "search"]
                 \o <<"context", "synthesize", "parse", "fallback">>

\* the Source Records an invocation collects from the answers it got, when it
\* runs alone: the except branch empties the list
RECURSIVE SourcesAlone(_, _)
SourcesAlone(answers, i) ==
    IF i > Len(answers) THEN <<>>
    ELSE IF answers[i] = Failed THEN <<>>
    ELSE SourcesOf(SearchResponse(QueryTypes[i], answers[i]), QueryTypes[i])
             \o SourcesAlone(answers, i + 1)

\* the outcome of invocation t run alone on its inputs and the answers it got
RunAlone(t) ==
    Validate(inv[t].json_output, inv[t].company_name, inv[t].website_url,
             IF inv[t].answers # <<>> /\ inv[t].answers[Len(inv[t].answers)] = Failed
             THEN <<>> ELSE SourcesAlone(inv[t].answers, 1))

\* the record invocation t returned, as its caller sees it now
RecordOf(t) == [key \in DOMAIN inv[t].ret |-> heap[inv[t].ret[key]].value]

\* C16: two interleaved invocations share no mutable state: each returns the
\* record it would return run alone, no object belongs to both records, and a
\* record changes only where its own caller changed it
C16_InvocationsIsolated ==
    \A t \in Invocations :
        /\ inv[t].pc = "raised" => RunAlone(t).kind = "raise"
        /\ inv[t].pc = "done" =>
              /\ RunAlone(t).kind = "return"
              /\ DOMAIN RecordOf(t) = DOMAIN RunAlone(t).value.d
              /\ \A key \in DOMAIN RecordOf(t) :
                    RecordOf(t)[key] = IF key \in inv[t].edits
                                       THEN Edit(RunAlone(t).value.d[key])
                                       ELSE RunAlone(t).value.d[key]
              /\ \A u \in Invocations \ {t} :
                    \A key \in DOMAIN inv[t].ret, other \in DOMAIN inv[u].ret :
                        inv[t].ret[key] # inv[u].ret[other]

\* both invocations were in progress at once, both records got their snapshot
\* from get_default_section, and the caller of the second changed its snapshot
\* and its why_now while the first record was left alone
C16_Witness ==
    /\ overlap
    /\ \A t \in Invocations :
          inv[t].pc = "done" /\ inv[t].json_output = <<J(EmptyDict)>>
    /\ inv[1].all_sources # <<>>
    /\ inv[1].edits = {}
    /\ inv[2].edits = EditableKeys

\* a credential is missing: the variable is not set, or set to the empty text
Missing(key) == environ[key] = [t |-> "null"] \/ environ[key] = [t |-> "str", s |-> ""]

\* an invocation has started (and maybe ended) since the module was loaded
InvocationStarted ==
    \/ pc # "idle"
    \/ search_calls # <<>>
    \/ synth_calls # <<>>
    \/ \E t \in Invocations : inv[t].pc # "idle"

\* C17: a missing credential is fatal at startup: loading the module raises
\* with no client constructed, no invocation ever starts, and no invocation
\* ends with an exception of its own for it
C17_MissingCredentialIsFatalAtStartup ==
    /\ (module_state # "unloaded" /\ \E key \in EnvKeys : Missing(key)) =>
          /\ module_state = "ValueError"
          /\ clients = {}
    /\ (\E key \in EnvKeys : Missing(key)) =>
          /\ ~InvocationStarted
          /\ exc = "none"
    /\ InvocationStarted =>
          /\ module_state = "loaded"
          /\ clients = {"tavily", "llm"}

\* the search credential is set, the synthesis credential is not, and the
\* module was loaded: it raised
C17_Witness ==
    /\ environ["TAVILY_API_KEY"] = [t |-> "str", s |-> "key"]
    /\ environ["ANTHROPIC_API_KEY"] = [t |-> "null"]
    /\ module_state = "ValueError"

\* the record renders when the feature-matching collaborator is absent
RendersWithoutFeatures == ~RenderRaises(structured_data, FALSE)

\* C18: absence or failure of the feature-matching collaborator only omits the
\* enrichment: a record that renders without workshop_features also renders
\* with it, whatever feature matching or the displacement lookup do on it
C18_FeatureFailureOnlyOmits ==
    (pdf # "none" /\ RendersWithoutFeatures) => pdf # "raised"

\* the context has been assembled
Assembled == pc \in {"synth", "validate", "done", "raised"}

\* the lines of the context that open a tagged block
Markers == {l \in DOMAIN context_with_sources : context_with_sources[l].tag = "SOURCE"}

\* C19: the assembled context has one tagged block per Source Record, in list
\* order; the block of the record at position i is marked [SOURCE i] and
\* carries that record's URL, title, query category and whole content; it is
\* the context the generator is given, and position i is also the record's
\* position in _metadata.all_sources
C19_OneBlockPerSource ==
    Assembled =>
        /\ Cardinality(Markers) = Len(all_sources)
        /\ \A i \in 1..Len(all_sources) :
              LET first == 5 * (i - 1) + 1
              IN /\ first \in Markers
                 /\ \A l \in Markers : l < first <=> \E h \in 1..(i - 1) : l = 5 * (h - 1) + 1
                 /\ context_with_sources[first].text = ToString(i)
                 /\ context_with_sources[first + 1] =
                        [tag |-> "URL", text |-> all_sources[i].d.url.s]
                 /\ context_with_sources[first + 2] =
                        [tag |-> "Title", text |-> all_sources[i].d.title.s]
                 /\ context_with_sources[first + 3] =
                        [tag |-> "Type", text |-> all_sources[i].d.query_type.s]
                 /\ context_with_sources[first + 4] =
                        [tag |-> "Content", text |-> all_sources[i].d.content.s]
        /\ all_sources # <<>> => Len(context_with_sources) = 5 * Len(all_sources)
        /\ \A c \in DOMAIN synth_calls : synth_calls[c].context = context_with_sources
        /\ ParsedOk =>
              \A i \in 1..Len(all_sources) :
                  structured_data.d["_metadata"].d.all_sources.items[i] = all_sources[i]

\* the generator was given a context with two blocks, the second for a result
\* that had neither title nor url, and the record came back
C19_Witness ==
    /\ ParsedOk
    /\ Len(synth_calls) = 1
    /\ Cardinality(Markers) = 2
    /\ synth_calls[1].context[6] = [tag |-> "SOURCE", text |-> "2"]
    /\ synth_calls[1].context[8].text = "N/A"

\* the invocation ended, with a record or with an exception of validation
Validated == pc \in {"done", "raised"} /\ json_output # <<>>

\* C20: code-fence stripping is transparent: when the generator's output is a
\* JSON object text between an opening fence line (with or without a language
\* tag) and a closing fence line, with optional surrounding whitespace, the
\* invocation ends exactly as on that JSON text alone
C20_FenceStripTransparent ==
    \A pair \in FencedPairs :
        (Validated /\ json_output = pair.raw) =>
            LET alone == Validate(pair.plain, company_name, website_url, all_sources)
            IN /\ alone.kind = "return"
               /\ ~alone.fallback
               /\ pc = "done"
               /\ structured_data = alone.value

\* a multi-line object with sections missing came fenced with indented fences
\* and blank lines, sources were collected, and the record came back
C20_Witness ==
    /\ pc = "done"
    /\ Len(all_sources) > 0
    /\ \E pair \in FencedPairs :
          /\ json_output = pair.raw
          /\ Len(pair.plain) = 3
          /\ pair.raw[1] = NL
          /\ ~HasKey(JsonLoads(pair.plain), "why_now")
          /\ HasKey(structured_data, "why_now")

\* C21: get_default_section returns the documented default of each section:
\* for snapshot the five scalar fields "Unknown" with tech_stack and
\* change_events empty, for why_now, personas, angles and openers an empty
\* list; and every call returns a value of its own, which a change made
\* through an earlier result does not reach
C21_DocumentedDefaults ==
    \A c \in DOMAIN default_calls :
        default_calls[c].section_name \in
                {"snapshot", "openers", "why_now", "personas", "angles"} =>
            /\ default_calls[c].value = DocumentedDefault(default_calls[c].section_name)
            /\ heap[default_calls[c].object].value =
                   IF default_calls[c].edited
                   THEN Edit(DocumentedDefault(default_calls[c].section_name))
                   ELSE DocumentedDefault(default_calls[c].section_name)
            /\ \A b \in DOMAIN default_calls :
                   b # c => default_calls[b].object # default_calls[c].object

\* openers and snapshot were asked for, the first snapshot was changed by its
\* caller, and a later call for snapshot gave the default again
C21_Witness ==
    /\ Len(default_calls) = 3
    /\ default_calls[1].section_name = "snapshot"
    /\ default_calls[1].edited
    /\ default_calls[2].section_name = "openers"
    /\ default_calls[3].section_name = "snapshot"
    /\ ~default_calls[3].edited
    /\ heap[default_calls[1].object].value # heap[default_calls[3].object].value

\* a query of the invocation failed: the search raised, or reading its answer did
CollectionFailed ==
    \E i \in DOMAIN result_counts : result_counts[i] \in {Failed, Malformed}

\* C22: collection is all or nothing: once the context is fixed for the
\* synthesis call, the source list is empty if any query failed, whatever the
\* queries before it returned, and otherwise it is the results of all seven
\* queries, in query order and in returned order; the context given to the
\* synthesis service has one block per record of that list
C22_AllOrNothing ==
    Assembled =>
        /\ CollectionFailed => all_sources = <<>>
        /\ ~CollectionFailed =>
              /\ Len(result_counts) = 7
              /\ Len(all_sources) = Offset(result_counts, 7)
              /\ \A N \in 1..Len(all_sources) :
                    LET q == AnswerOf(result_counts, N)
                        j == N - Offset(result_counts, q - 1)
                    IN /\ all_sources[N].d.query_type.s = CategoryOrder[q]
                       /\ all_sources[N].d.content = SearchResult(CategoryOrder[q], j).d.content
        /\ \A c \in DOMAIN synth_calls :
              Cardinality({l \in DOMAIN synth_calls[c].context :
                              synth_calls[c].context[l].tag = "SOURCE"}) = Len(all_sources)

\* two queries returned results, the third failed, and the synthesis service
\* was called with no source left
C22_Witness ==
    /\ Len(synth_calls) = 1
    /\ Len(result_counts) = 3
    /\ result_counts[1] > 0
    /\ result_counts[2] > 0
    /\ result_counts[3] = Failed
    /\ all_sources = <<>>

\* the _metadata of the returned record
ReturnedMetadata == structured_data.d["_metadata"].d

\* C23: in every returned record, from the parse path or the fallback path,
\* _metadata.sources_count is the length of _metadata.all_sources, and a
\* record with a positive sources_count came from the parse path
C23_CountMatchesList ==
    Returned =>
        /\ ReturnedMetadata.sources_count.t = "num"
        /\ ReturnedMetadata.all_sources.t = "list"
        /\ ReturnedMetadata.sources_count.n = Len(ReturnedMetadata.all_sources.items)
        /\ ReturnedMetadata.sources_count.n > 0 => ParsedOk
        /\ FellBack => ReturnedMetadata.sources_count.n = 0

\* a parsed record that counts the sources collected for it
C23_Witness ==
    /\ Returned
    /\ ReturnedMetadata.sources_count.n = MaxSources
    /\ Len(ReturnedMetadata.all_sources.items) = MaxSources
    /\ pdf # "none"

\* the clicks of the session whose run stored its record
\* the clicks of the session whose call of get_company_data returned a record
Successful ==
    {i \in DOMAIN clicks : clicks[i].outcome \in {"stored", "stopped"}
                              /\ clicks[i].record # [t |-> "null"]}

\* what a click is recorded with: an empty input calls nothing and warns
EmptyInputCallsNothing ==
    \A i \in DOMAIN clicks :
        (clicks[i].company = "" \/ clicks[i].website = "")
            => ~clicks[i].called /\ clicks[i].outcome = "warning"

\* the session holds the record and the company of the latest click among
\* "done", and nothing when there is none
HoldsLatestOf(done) ==
    /\ done = {} => session_state = [k \in {} |-> [t |-> "null"]]
    /\ done # {} =>
          LET last == CHOOSE i \in done : \A j \in done : j <= i
          IN /\ DOMAIN session_state = {"structured_data", "company_name"}
             /\ session_state["structured_data"] = clicks[last].record
             /\ session_state["company_name"] = [t |-> "str", s |-> clicks[last].company]
             /\ session_state["structured_data"].d["_metadata"].d.company_name
                    = session_state["company_name"]

\* C24: after any sequence of Generate clicks, whenever no run is under way,
\* the session holds the record and the company of one and the same
\* generation, the most recent one that returned a record, and nothing when
\* there is none; a click with an empty company or website does not call
\* get_company_data, and a generation that raised left both values as they
\* were
C24_SessionHoldsLastSuccess ==
    (RunStage \notin {"accepted", "running", "returned", "record_stored"}) =>
        /\ HoldsLatestOf(Successful)
        /\ EmptyInputCallsNothing

\* for each position of the capability table, how many pain points of that
\* entry occur in the text
KeywordCounts(text) ==
    [i \in DOMAIN WORKSHOP_FEATURES |->
        Cardinality({k \in DOMAIN WORKSHOP_FEATURES[i].pain_points :
                        Contains(text, WORKSHOP_FEATURES[i].pain_points[k])})]

\* the positions of the entries with at least one pain point in the text
MatchingEntries(counts) == {i \in DOMAIN counts : counts[i] >= 1}

\* table entry i comes before table entry j in the order of the result
RanksBefore(i, j, counts) ==
    \/ counts[i] > counts[j]
    \/ counts[i] = counts[j] /\ i < j

\* the table position of a returned entry
TableIndex(entry) == CHOOSE i \in DOMAIN WORKSHOP_FEATURES : WORKSHOP_FEATURES[i].key = entry.key

\* C26: a call of match_features_to_company that returns gives the first at
\* most 4 of the table entries with a pain point occurring in the record's
\* lower-cased text, by number of matched keywords descending and ties in
\* table order; each entry's relevance_score is at least 1 and is the length
\* of its matched_keywords; a record matching nothing gives the empty list
C26_TopFourByKeywordCount ==
    (top_features # None /\ top_features.kind = "return") =>
        LET text == CombinedText(match_input)
            counts == KeywordCounts(text)
            out == top_features.value
            matching == MatchingEntries(counts)
        IN /\ Len(out) = IF Cardinality(matching) < 4 THEN Cardinality(matching) ELSE 4
           /\ \A n \in DOMAIN out :
                 /\ TableIndex(out[n]) \in matching
                 /\ out[n].relevance_score >= 1
                 /\ out[n].relevance_score = Len(out[n].matched_keywords)
                 /\ out[n].relevance_score = counts[TableIndex(out[n])]
                 /\ \A k \in DOMAIN out[n].matched_keywords :
                        Contains(text, out[n].matched_keywords[k])
           /\ \A n, m \in DOMAIN out :
                 n < m => RanksBefore(TableIndex(out[n]), TableIndex(out[m]), counts)
           /\ \A i \in matching :
                 (\A n \in DOMAIN out : TableIndex(out[n]) # i) =>
                     \A n \in DOMAIN out : RanksBefore(TableIndex(out[n]), i, counts)
           /\ (matching = {}) => out = <<>>

\* a call returned 4 entries out of more than 4 matching ones, with a tie in
\* score among them and a higher score before a lower one
C26_Witness ==
    /\ top_features # None
    /\ top_features.kind = "return"
    /\ Len(top_features.value) = 4
    /\ Cardinality(MatchingEntries(KeywordCounts(CombinedText(match_input)))) > 4
    /\ top_features.value[1].relevance_score > top_features.value[4].relevance_score
    /\ \E n \in 1..3 : top_features.value[n].relevance_score
                          = top_features.value[n + 1].relevance_score

\* the layout caps of the document
ChangeEventsCap == 4
GoalsCap == 3
FearsCap == 3
AnglesCap == 2
BadgesCap == 3
FeaturesCap == 3
SourcesCap == 8

\* shown is the first at most cap entries of given, in order
FirstOf(shown, given, cap) ==
    /\ Len(shown) = IF Len(given) < cap THEN Len(given) ELSE cap
    /\ \A i \in DOMAIN shown : shown[i] = given[i]

\* shown has an entry for each of the first at most cap entries of given, in
\* order: for an object its field, for a plain item "plain" of it
FirstFieldOf(shown, given, cap, field, plain(_)) ==
    FirstOf(shown,
            [i \in DOMAIN given |->
                IF given[i].t = "dict" THEN given[i].d[field] ELSE plain(given[i])],
            cap)

\* the lists of the rendered record, as the entries a loop over them visits
GivenWhyNow == Elements(render_input.d.why_now)
GivenPersonas == Elements(render_input.d.personas)
GivenAngles == Elements(render_input.d.angles)
GivenChangeEvents == Elements(render_input.d.snapshot.d.change_events)
GivenSources == Elements(render_input.d._metadata.d.all_sources)
GivenFeatures ==
    IF FEATURES_AVAILABLE THEN match_features_to_company(render_input).value ELSE <<>>

\* the entries of a field of an object of the record; none for a plain item
GivenField(item, field) ==
    IF item.t = "dict" THEN Elements(item.d[field]) ELSE <<>>

\* C25: whatever the lengths of the record's lists, the document shows the
\* first at most 3 why_now items, the first at most 2 personas each with its
\* first at most 3 goals and 3 fears, the first at most 2 angles each with its
\* first at most 3 source badges, the first at most 4 change events, the
\* first at most 3 matched features and the first at most 8 sources, each in
\* list order
C25_DocumentShowsCappedPrefixes ==
    (document.t = "document") =>
        LET shows == document.shows
        IN /\ FirstFieldOf(shows.why_now, GivenWhyNow, WhyNowCap, "title",
                           LAMBDA x : [t |-> "str", s |-> "Point"])
           /\ FirstFieldOf([i \in DOMAIN shows.personas |-> shows.personas[i].title],
                           GivenPersonas, PersonasCap, "title", LAMBDA x : x)
           /\ \A i \in DOMAIN shows.personas :
                 /\ FirstOf(shows.personas[i].goals,
                            GivenField(GivenPersonas[i], "goals"), GoalsCap)
                 /\ FirstOf(shows.personas[i].fears,
                            GivenField(GivenPersonas[i], "fears"), FearsCap)
           /\ FirstFieldOf([i \in DOMAIN shows.angles |-> shows.angles[i].title],
                           GivenAngles, AnglesCap, "title",
                           LAMBDA x : [t |-> "str", s |-> "Approach"])
           /\ \A i \in DOMAIN shows.angles :
                 FirstOf(shows.angles[i].badges,
                         GivenField(GivenAngles[i], "sources"), BadgesCap)
           /\ FirstFieldOf(shows.change_events, GivenChangeEvents, ChangeEventsCap,
                           "event", LAMBDA x : x)
           /\ FirstOf([i \in DOMAIN shows.features |-> shows.features[i].name],
                      [i \in DOMAIN GivenFeatures |-> GivenFeatures[i].name],
                      FeaturesCap)
           /\ FirstFieldOf([i \in DOMAIN shows.sources |-> shows.sources[i].url],
                           GivenSources, SourcesCap, "url", LAMBDA x : x)
           /\ \A i \in DOMAIN shows.sources : shows.sources[i].idx = i

\* a document was built from a record whose every list is longer than its
\* cap, with more features matched than are shown
C25_Witness ==
    /\ document.t = "document"
    /\ Len(GivenWhyNow) > WhyNowCap
    /\ Len(GivenPersonas) > PersonasCap
    /\ Len(GivenField(GivenPersonas[1], "goals")) > GoalsCap
    /\ Len(GivenField(GivenPersonas[2], "fears")) > FearsCap
    /\ Len(GivenAngles) > AnglesCap
    /\ Len(GivenField(GivenAngles[1], "sources")) > BadgesCap
    /\ Len(GivenChangeEvents) > ChangeEventsCap
    /\ Len(GivenFeatures) > FeaturesCap
    /\ Len(GivenSources) > SourcesCap
    /\ Len(document.shows.features) = FeaturesCap
    /\ Len(document.shows.sources) = SourcesCap

====
